---- MODULE Spec2Model ----
(***************************************************************************)
(* A model of mermaid-trace's core: the collapsing MermaidFormatter, the   *)
(* MermaidHandlerMixin file sinks, the queue-backed AsyncMermaidHandler    *)
(* and the contextvars-based LogContext.                                   *)
(***************************************************************************)
EXTENDS Integers, Sequences, FiniteSets, TLC

(***************************************************************************)
(* Bounds of the model.                                                    *)
(***************************************************************************)
\* Number of format() calls explored on one formatter with arbitrary events.
MaxEvents == 4
\* Largest repeat count N explored for the repeated-call / repeated-pair runs.
MaxRepeat == 4

(***************************************************************************)
(* Events (core/events.py FlowEvent, with the stack_trace and collapsed    *)
(* attributes that formatter.py reads and decorators.py sets).             *)
(***************************************************************************)
Participants == {"A", "B"}
Actions == {"f"}
\* Stand-ins for the free text of an event: message/params of a call, the
\* result of a return, the error_message of an error.
Texts == {"m1", "m2"}

\* Events logged when a traced call starts (decorators.py _log_interaction).
CallEvents ==
    [source : Participants, target : Participants, action : Actions,
     is_return : {FALSE}, is_error : {FALSE}, message : Texts, params : {""},
     result : {""}, error_message : {""}, stack_trace : {FALSE},
     collapsed : {FALSE}]

\* Events logged when a traced call returns (decorators.py _log_return).
ReturnEvents ==
    [source : Participants, target : Participants, action : Actions,
     is_return : {TRUE}, is_error : {FALSE}, message : {"Return"}, params : {""},
     result : Texts, error_message : {""}, stack_trace : {FALSE},
     collapsed : {FALSE}]

\* Events logged when a traced call raises (decorators.py _log_error);
\* stack_trace tells whether the event carries a non-empty stack trace.
ErrorEvents ==
    [source : Participants, target : Participants, action : Actions,
     is_return : {TRUE}, is_error : {TRUE}, message : {"m1"}, params : {""},
     result : {""}, error_message : {"m1"}, stack_trace : BOOLEAN,
     collapsed : {FALSE}]

FlowEvent ==
    { e \in CallEvents \cup ReturnEvents \cup ErrorEvents : e.source # e.target }

VARIABLES
    formatter,   \* MermaidFormatter: _event_buffer, _pattern_count, _current_pattern
    fed,         \* history: the events passed to format(), in order
    returned,    \* history: what each format() call returned (a sequence of lines)
    out,         \* history: all lines returned by format() and flush(), concatenated
    run,         \* the scenario of a repeated run: "same", "pair" or "none"
    flushes,     \* history: 1 once a flush() has returned text or ended a run
    participant_map, \* MermaidFormatter._participant_map: raw name -> Mermaid id
    used_ids,    \* MermaidFormatter._used_ids
    sink,        \* a Mermaid file handler, its formatter and its files on disk
    emits,       \* history: number of emit() calls made on the sink
    queue_size,  \* AsyncMermaidHandler._queue_size
    queue,       \* AsyncMermaidHandler._log_queue: record ids, 0 is the sentinel
    listener,    \* AsyncMermaidHandler._listener is set (not None)
    consumer,    \* the QueueListener thread: where it is, the record it holds
    producers,   \* the threads that log: where each is in emit(), with which record
    stopper,     \* the thread that calls stop(): where it is in stop()
    handlers,    \* the downstream handlers given to the QueueListener
    flush_fails, \* the downstream handlers whose flush() raises
    created,     \* history: the event of every record passed to emit(), by id
    owner,       \* history: the producer that passed each record to emit(), by id
                 \* (kept by SpecFifo only)
    accepted,    \* history: ids of the records emit() put on the queue
    dropped,     \* history: ids of the records emit() dropped
    dispatched,  \* history: ids of the records handed to the handlers, in order
    stops,       \* history: stop() calls made, records accepted before the last
                 \* call, whether that call has returned, and the number of
                 \* records passed to emit() before the first call
    heap,        \* the dict objects LogContext has created, by identity
    execs,       \* the logical executions (threads, asyncio tasks): the dict
                 \* their ContextVar holds (0: unset) and their open scopes
    tracing,     \* history: the last current_trace_id() call that was noted:
                 \* the execution that made it, the id it returned, the dict
                 \* it left installed, and whether it was a repeated call
    held,        \* the dict objects the callers of LogContext hold references
                 \* to: the ones get_all() returned to them
    call,        \* the traced function: where its wrapper is, the decorator's
                 \* arguments, the number of calls finished, and what the
                 \* last call logged, was given by its body and gave its caller
    gather,      \* the coroutines passed to asyncio.gather: how many, whether their
                 \* body suspends, and where each task is
    threads,     \* two threads on one sink and the sink's lock (Handler.lock): its
                 \* owner, and where the thread that logs and the thread that
                 \* flushes are, each with the text it is about to write
    faults,      \* failures inside emit: how many were injected and how many
                 \* handleError reported, and the traced call they happened in: where
                 \* it is, what the function did and what its caller got
    catching,    \* logcapy catch: the arguments it was built with, how many
                 \* records it logged, and the last call or block it guarded: what
                 \* the guarded code did and what came out
    nest         \* the traced calls in progress in the main execution, innermost
                 \* last: the source each logged, its target and the participant before
                 \* it; and the participant before and after the call that ended last

fmtVars == <<formatter, fed, returned, out, run, flushes>>
sinkVars == <<sink, emits>>
asyncVars == <<queue_size, queue, listener, consumer, producers, stopper, handlers,
               flush_fails,
               created, owner, accepted, dropped, dispatched, stops>>

ctxVars == <<heap, execs>>
sanVars == <<participant_map, used_ids>>
traceVars == <<tracing>>
cowVars == <<held>>
callVars == <<call>>
gatherVars == <<gather>>
threadVars == <<threads>>
faultVars == <<faults>>
catchVars == <<catching>>
nestVars == <<nest>>

vars == <<fmtVars, sinkVars, asyncVars, ctxVars, sanVars, traceVars, cowVars, callVars, gatherVars, threadVars, faultVars, catchVars, nestVars>>

\* What the actions of one component leave alone.
notFmt == <<sinkVars, asyncVars, ctxVars, sanVars, traceVars, cowVars, callVars, gatherVars, threadVars, faultVars, catchVars, nestVars>>
notSink == <<fmtVars, asyncVars, ctxVars, sanVars, traceVars, cowVars, callVars, gatherVars, threadVars, faultVars, catchVars, nestVars>>
notAsync == <<fmtVars, sinkVars, ctxVars, sanVars, traceVars, cowVars, callVars, gatherVars, threadVars, faultVars, catchVars, nestVars>>
notCtx == <<fmtVars, sinkVars, asyncVars, sanVars, traceVars, cowVars, callVars, gatherVars, threadVars, faultVars, catchVars, nestVars>>
notSan == <<fmtVars, sinkVars, asyncVars, ctxVars, traceVars, cowVars, callVars, gatherVars, threadVars, faultVars, catchVars, nestVars>>
notTrace == <<fmtVars, sinkVars, asyncVars, sanVars, cowVars, callVars, gatherVars, threadVars, faultVars, catchVars, nestVars>>
notCow == <<fmtVars, sinkVars, asyncVars, sanVars, traceVars, callVars, gatherVars, threadVars, faultVars, catchVars, nestVars>>
notCallSink == <<fmtVars, asyncVars, sanVars, traceVars, cowVars, gatherVars, threadVars, faultVars, catchVars, nestVars>>
notGather == <<fmtVars, sinkVars, asyncVars, ctxVars, sanVars, traceVars, cowVars, callVars, threadVars, faultVars, catchVars, nestVars>>
notThread == <<fmtVars, sinkVars, asyncVars, ctxVars, sanVars, traceVars, cowVars, callVars, gatherVars, faultVars, catchVars, nestVars>>
notFault == <<fmtVars, sinkVars, asyncVars, ctxVars, sanVars, traceVars, cowVars, callVars, gatherVars, threadVars, catchVars, nestVars>>
notCatch == <<fmtVars, sinkVars, asyncVars, ctxVars, sanVars, traceVars, cowVars, callVars, gatherVars, threadVars, faultVars, nestVars>>
notNestCtx == <<fmtVars, sinkVars, asyncVars, sanVars, traceVars, cowVars, callVars, gatherVars, threadVars, faultVars, catchVars>>

(***************************************************************************)
(* MermaidFormatter                                                        *)
(***************************************************************************)
\* event_key = (event.source, event.target, event.action, event.is_return)
EventKey(e) == <<e.source, e.target, e.action, e.is_return>>

\* The state set up by MermaidFormatter.__init__.
NewFormatter ==
    [event_buffer |-> <<>>, pattern_count |-> 0, current_pattern |-> <<>>]

\* _escape_message on one character of the message.
EscapeChar(c) ==
    CASE c = "\n" -> "<br/>"
      [] c = "("  -> "U+FF08"
      [] c = ")"  -> "U+FF09"
      [] c = "["  -> "U+FF3B"
      [] c = "]"  -> "U+FF3D"
      [] c = ";"  -> "U+FF1B"
      [] c = "#"  -> "U+FF03"
      [] OTHER    -> c

\* _escape_message: a message is a sequence of pieces of text, the characters
\* Mermaid could misparse being pieces of their own.
EscapeMessage(msg) == [i \in 1..Len(msg) |-> EscapeChar(msg[i])]

\* format_event: the arrow line of an event, followed by a note line for an
\* error with a stack trace or for a manually collapsed event.
\* The participants of the events ("A", "B") are valid Mermaid ids that do
\* not collide, so _sanitize returns them as they are.
FormatEvent(e, count) ==
    LET arrow == IF e.is_error THEN "--x"
                 ELSE IF e.is_return THEN "-->>" ELSE "->>"
        text  == IF e.is_error THEN <<"Error: ", e.error_message>>
                 ELSE IF e.is_return
                 THEN (IF e.result # "" THEN <<"Return: ", e.result>>
                       ELSE <<"Return">>)
                 ELSE IF e.params # ""
                 THEN <<e.message, "(", e.params, ")">>
                 ELSE <<e.message>>
        msg   == IF count > 1
                 THEN text \o <<" ", "(", "x", ToString(count), ")">>
                 ELSE text
        line  == [kind |-> "arrow", src |-> e.source, arrow |-> arrow,
                  tgt |-> e.target, msg |-> EscapeMessage(msg)]
    IN  IF e.is_error /\ e.stack_trace
        THEN <<line, [kind |-> "note", src |-> e.target, arrow |-> "note right of",
                      tgt |-> e.target, msg |-> EscapeMessage(<<"stack", "...">>)]>>
        ELSE IF e.collapsed /\ count = 1
        THEN <<line, [kind |-> "note", src |-> e.source, arrow |-> "note right of",
                      tgt |-> e.source,
                      msg |-> <<"( Sampled / Collapsed Interaction )">>]>>
        ELSE <<line>>

\* The lines of every buffered event, each with count 1 (flush, no pattern).
RECURSIVE FormatEach(_)
FormatEach(buf) ==
    IF buf = <<>> THEN <<>>
    ELSE FormatEvent(Head(buf), 1) \o FormatEach(Tail(buf))

\* One instance of the pattern, each slot with the total count (flush, pattern).
RECURSIVE FormatPattern(_, _, _)
FormatPattern(buf, n, count) ==
    IF n = 0 THEN <<>>
    ELSE FormatPattern(buf, n - 1, count) \o FormatEvent(buf[n], count)

\* A flush that returns the buffered lines and keeps the buffer.
FlushKeepsBuffer(f) ==
    [formatter |-> f,
     lines |-> IF f.current_pattern # <<>>
               THEN FormatPattern(f.event_buffer, Len(f.current_pattern),
                                  f.pattern_count)
               ELSE FormatEach(f.event_buffer)]

\* MermaidFormatter.flush
Flush(f) ==
    IF f.event_buffer = <<>>
    THEN [formatter |-> f, lines |-> <<>>]
    ELSE [formatter |-> NewFormatter,
          lines |-> IF f.current_pattern # <<>>
                    THEN FormatPattern(f.event_buffer, Len(f.current_pattern),
                                       f.pattern_count)
                    ELSE FormatEach(f.event_buffer)]

\* A format that counts every matching event of an active pattern.
FormatInPatternCountsAll(f, e) ==
    LET pattern_len == Len(f.current_pattern)
        match_idx == Len(f.event_buffer) % pattern_len
    IN  IF EventKey(e) = f.current_pattern[match_idx + 1]
        THEN [formatter |->
                 [f EXCEPT !.event_buffer = Append(@, e),
                           !.pattern_count = @ + 1],
              lines |-> <<>>]
        ELSE [formatter |-> [Flush(f).formatter EXCEPT !.event_buffer = <<e>>],
              lines |-> Flush(f).lines]

\* MermaidFormatter.format, case 1: a pattern is active.
FormatInPattern(f, e) ==
    LET pattern_len == Len(f.current_pattern)
        match_idx == Len(f.event_buffer) % pattern_len
    IN  IF EventKey(e) = f.current_pattern[match_idx + 1]
        THEN [formatter |->
                 [f EXCEPT !.event_buffer = Append(@, e),
                           !.pattern_count =
                               IF match_idx = pattern_len - 1 THEN @ + 1 ELSE @],
              lines |-> <<>>]
        ELSE [formatter |-> [Flush(f).formatter EXCEPT !.event_buffer = <<e>>],
              lines |-> Flush(f).lines]

\* A format that, when the new event starts no pattern with the buffered
\* one, returns the line of the new event and keeps the buffered one.
FormatOneBufferedNewFirst(f, e) ==
    LET first == f.event_buffer[1]
        first_key == EventKey(first)
    IN  IF EventKey(e) = first_key
        THEN [formatter |-> [event_buffer |-> Append(f.event_buffer, e),
                             pattern_count |-> 2,
                             current_pattern |-> <<first_key>>],
              lines |-> <<>>]
        ELSE IF /\ e.is_return
                /\ e.source = first.target
                /\ e.target = first.source
                /\ e.action = first.action
        THEN [formatter |-> [event_buffer |-> Append(f.event_buffer, e),
                             pattern_count |-> 1,
                             current_pattern |-> <<first_key, EventKey(e)>>],
              lines |-> <<>>]
        ELSE [formatter |-> f, lines |-> FormatEvent(e, 1)]

\* MermaidFormatter.format, case 2: no pattern yet, one event buffered.
FormatOneBuffered(f, e) ==
    LET first == f.event_buffer[1]
        first_key == EventKey(first)
    IN  IF EventKey(e) = first_key
        THEN [formatter |-> [event_buffer |-> Append(f.event_buffer, e),
                             pattern_count |-> 2,
                             current_pattern |-> <<first_key>>],
              lines |-> <<>>]
        ELSE IF /\ e.is_return
                /\ e.source = first.target
                /\ e.target = first.source
                /\ e.action = first.action
        THEN [formatter |-> [event_buffer |-> Append(f.event_buffer, e),
                             pattern_count |-> 1,
                             current_pattern |-> <<first_key, EventKey(e)>>],
              lines |-> <<>>]
        ELSE [formatter |-> [f EXCEPT !.event_buffer = <<e>>],
              lines |-> FormatEvent(first, 1)]

\* MermaidFormatter.format, case 3: completely idle.
FormatIdle(f, e) ==
    [formatter |-> [f EXCEPT !.event_buffer = <<e>>], lines |-> <<>>]

\* MermaidFormatter.format for a record that carries a FlowEvent.
Format(f, e) ==
    IF f.current_pattern # <<>> THEN FormatInPattern(f, e)
    ELSE IF f.event_buffer # <<>> THEN FormatOneBuffered(f, e)
    ELSE FormatIdle(f, e)

(***************************************************************************)
(* MermaidFormatter._sanitize                                              *)
(***************************************************************************)
\* Number of distinct raw participant names one formatter is given.
MaxNames == 3

\* Names are sequences of pieces of text: the underscore, a character that
\* is not allowed in an id, a digit, and the word "Unknown".
WordPieces == {"_", "1", "Unknown"}
Digits == {"1"}
Pieces == WordPieces \cup {"."}

\* The raw participant names given to _sanitize.
RawNames ==
    {<<>>}
    \cup {<<a>> : a \in Pieces}
    \cup {<<a, b>> : a, b \in Pieces \ {"Unknown"}}
    \cup {<<a, b, c>> : a, b, c \in Pieces \ {"Unknown"}}
    \cup {<<"Unknown", "_", "1">>}

\* re.sub(r"[^a-zA-Z0-9_]", "_", name), then "_" in front of a leading
\* digit, then "Unknown" for an empty result.
CleanName(name) ==
    LET replaced == [i \in 1..Len(name) |->
                        IF name[i] \in WordPieces THEN name[i] ELSE "_"]
        prefixed == IF replaced # <<>> /\ replaced[1] \in Digits
                    THEN <<"_">> \o replaced ELSE replaced
    IN  IF prefixed = <<>> THEN <<"Unknown">> ELSE prefixed

\* f"{original_clean}_{counter}"
Suffixed(clean, counter) == clean \o <<"_", ToString(counter)>>

\* The id the collision loop ends with: the first of clean, clean_1,
\* clean_2, ... that is not in used.
UniqueId(clean, used) ==
    IF clean \notin used THEN clean
    ELSE Suffixed(clean,
             CHOOSE c \in 1..(Cardinality(used) + 1) :
                 /\ Suffixed(clean, c) \notin used
                 /\ \A d \in 1..(c - 1) : Suffixed(clean, d) \in used)

\* A variant of Sanitize without the collision check.
SanitizeUnchecked(pm, used, name) ==
    IF name \in DOMAIN pm
    THEN [map |-> pm, used |-> used, id |-> pm[name]]
    ELSE [map |-> pm @@ (name :> CleanName(name)),
          used |-> used \cup {CleanName(name)}, id |-> CleanName(name)]

\* MermaidFormatter._sanitize(name): the map and the used ids it leaves, and
\* the id it returns.
Sanitize(pm, used, name) ==
    IF name \in DOMAIN pm
    THEN [map |-> pm, used |-> used, id |-> pm[name]]
    ELSE LET id == UniqueId(CleanName(name), used)
         IN  [map |-> pm @@ (name :> id), used |-> used \cup {id}, id |-> id]

\* MermaidFormatter.__init__: no name seen yet.
NewSanitizer ==
    /\ participant_map = <<>>
    /\ used_ids = {}

\* The name map of the specifications that do not use one.
SanUnused == NewSanitizer

(***************************************************************************)
(* MermaidHandlerMixin over logging.FileHandler / RotatingFileHandler       *)
(***************************************************************************)
\* Length of the header text and of one written line with its terminator,
\* in the unit the rollover threshold is counted in.
HeaderBytes == 4
LineBytes == 2
\* The rollover threshold of a size-rotating sink (maxBytes).
MaxBytes == 8

\* Text a file held before the sink opened it ("sequenceDiagram\n  title Old\n").
OldContent == <<[kind |-> "old"]>>

\* The header written by _write_header (formatter.get_header(title)).
Header == [kind |-> "header"]

\* stream.tell() of a stream opened for appending or just truncated.
Size(content) ==
    LET RECURSIVE Sum(_)
        Sum(c) == IF c = <<>> THEN 0
                  ELSE (IF Head(c).kind = "header" THEN HeaderBytes ELSE LineBytes)
                       + Sum(Tail(c))
    IN  Sum(content)

\* len("%s\n" % self.format(record)) in RotatingFileHandler.shouldRollover.
MsgBytes(lines) == IF lines = <<>> THEN 1 ELSE Len(lines) * LineBytes

\* The constructor arguments explored: plain or size-rotating handler, mode,
\* maxBytes, backupCount, delay (RotatingFileHandler forces mode 'a' when
\* maxBytes > 0).
SinkConfigs ==
    { c \in [kind : {"file", "rotating"}, mode : {"a", "w"},
             maxBytes : {0, MaxBytes}, backupCount : {0, 1}, delay : BOOLEAN] :
        /\ c.kind = "file" => c.maxBytes = 0 /\ c.backupCount = 0
        /\ c.maxBytes > 0 => c.mode = "a" }

\* A variant of Open that truncates the file whatever the mode.
OpenTruncates(s) == [s EXCEPT !.stream = TRUE, !.exists = TRUE, !.base = <<>>]

\* FileHandler._open: open(baseFilename, mode).
Open(s) ==
    [s EXCEPT !.stream = TRUE, !.exists = TRUE,
              !.base = IF s.mode = "w" THEN <<>> ELSE @]

\* MermaidFileHandler.__init__ / RotatingMermaidFileHandler.__init__ on a
\* file that is missing (exists = FALSE) or holds the given content.
NewSink(c, exists, content) ==
    LET s == [kind |-> c.kind, mode |-> c.mode, maxBytes |-> c.maxBytes,
              backupCount |-> c.backupCount, delay |-> c.delay,
              stream |-> FALSE, formatter |-> NewFormatter,
              exists |-> exists, base |-> content, backups |-> <<>>]
    IN  IF c.delay THEN s ELSE Open(s)

\* MermaidHandlerMixin._write_header
WriteHeader(s) ==
    IF s.stream THEN [s EXCEPT !.base = Append(@, Header)] ELSE s

\* RotatingFileHandler.shouldRollover: formats the record to measure it.
ShouldRollover(s, e) ==
    LET s1 == IF ~s.stream THEN Open(s) ELSE s
        r  == Format(s1.formatter, e)
    IN  IF s1.maxBytes > 0
        THEN [sink |-> [s1 EXCEPT !.formatter = r.formatter],
              result |-> Size(s1.base) + MsgBytes(r.lines) >= s1.maxBytes]
        ELSE [sink |-> s1, result |-> FALSE]

\* RotatingFileHandler.doRollover
DoRollover(s) ==
    LET closed == [s EXCEPT !.stream = FALSE]
        moved  == IF s.backupCount > 0
                  THEN [closed EXCEPT
                          !.backups = IF s.exists
                                      THEN SubSeq(<<s.base>> \o s.backups, 1,
                                                  IF Len(s.backups) + 1 < s.backupCount
                                                  THEN Len(s.backups) + 1
                                                  ELSE s.backupCount)
                                      ELSE @,
                          !.exists = FALSE, !.base = <<>>]
                  ELSE closed
    IN  IF ~s.delay THEN Open(moved) ELSE moved

\* A variant of EnsureHeader that writes the header on every emit.
EnsureHeaderAlways(s) == WriteHeader(s)

\* MermaidHandlerMixin.emit, step 3: the header goes in at position 0.
EnsureHeader(s) ==
    IF s.stream /\ Size(s.base) = 0 THEN WriteHeader(s) ELSE s

\* MermaidHandlerMixin.emit, step 1: doRollover if shouldRollover said so.
RollIf(q) == IF q.result THEN DoRollover(q.sink) ELSE q.sink

\* MermaidHandlerMixin.emit, step 1, for the handlers that can rotate.
Rolled(s, e) == IF s.kind = "rotating" THEN RollIf(ShouldRollover(s, e)) ELSE s

\* MermaidHandlerMixin.emit, step 2: the stream is opened if it is not.
Opened(s) == IF ~s.stream THEN Open(s) ELSE s

\* The sink with the formatter as a format() or flush() call left it, and
\* the text the call returned.
FormatInto(s, r) == [sink |-> [s EXCEPT !.formatter = r.formatter], lines |-> r.lines]

\* MermaidHandlerMixin.emit, step 4: the call of format.
FormatStep(s, e) == FormatInto(s, Format(s.formatter, e))

\* MermaidHandlerMixin.emit, steps 1 to 4 up to the call of format: the
\* sink after it and the text format returned.
SinkEmitFormat(s, e) == FormatStep(EnsureHeader(Opened(Rolled(s, e))), e)

\* `if msg and self.stream: self.stream.write(msg + self.terminator)` in
\* emit and in flush.
SinkWrite(s, lines) ==
    [s EXCEPT !.base = IF lines # <<>> /\ s.stream THEN @ \o lines ELSE @]

\* The write of the text a format() or flush() call returned.
WriteResult(r) == SinkWrite(r.sink, r.lines)

\* MermaidHandlerMixin.emit for a record that carries a FlowEvent.
SinkEmit(s, e) == WriteResult(SinkEmitFormat(s, e))

\* MermaidHandlerMixin.flush up to the call of formatter.flush(): the sink
\* after it and the text it returned.
SinkFlushFormatter(s) == FormatInto(s, Flush(s.formatter))

\* MermaidHandlerMixin.flush
SinkFlush(s) == WriteResult(SinkFlushFormatter(s))

\* MermaidHandlerMixin.close: flush, then FileHandler.close.
SinkClose(s) == [SinkFlush(SinkFlush(s)) EXCEPT !.stream = FALSE]

\* The sink of the specifications that do not use one.
SinkUnused ==
    /\ sink = NewSink([kind |-> "file", mode |-> "a", maxBytes |-> 0,
                       backupCount |-> 0, delay |-> TRUE], FALSE, <<>>)
    /\ emits = 0

(***************************************************************************)
(* AsyncMermaidHandler over queue.Queue and logging.handlers.QueueListener  *)
(***************************************************************************)
\* Largest queue_size explored.
MaxQueueSize == 2
\* Number of records passed to emit().
MaxRecords == 3
\* Number of stop() calls (stop is also registered with atexit).
MaxStops == 2
\* Number of downstream handlers.
NumHandlers == 2

Producers == {"p1", "p2"}

\* QueueListener._sentinel, as it sits in the queue.
Sentinel == 0

\* A downstream MermaidFileHandler with a MermaidFormatter, on a new file.
NewHandler ==
    NewSink([kind |-> "file", mode |-> "a", maxBytes |-> 0, backupCount |-> 0,
             delay |-> FALSE], FALSE, <<>>)

\* A queue that was built without its bound.
QueueNeverFull == FALSE

\* queue.Queue(queue_size) has no free slot (a size <= 0 means unbounded).
QueueFull == queue_size > 0 /\ Len(queue) >= queue_size

\* The records waiting in the queue.
Pending == {queue[i] : i \in 1..Len(queue)} \ {Sentinel}

\* A variant of FlushAll without the try/except around each flush(): the
\* first exception ends the loop (stop()'s outer except catches it).
RECURSIVE FlushAllUnguarded(_, _, _)
FlushAllUnguarded(hs, fails, i) ==
    IF i > NumHandlers \/ i \in fails THEN hs
    ELSE FlushAllUnguarded([hs EXCEPT ![i] = SinkFlush(hs[i])], fails, i + 1)

\* stop(): `for handler in handlers: try: handler.flush() except Exception:
\* pass`, from handler i on; a flush() that raises leaves its handler as it is.
RECURSIVE FlushAll(_, _, _)
FlushAll(hs, fails, i) ==
    IF i > NumHandlers THEN hs
    ELSE FlushAll(IF i \in fails THEN hs ELSE [hs EXCEPT ![i] = SinkFlush(hs[i])],
                  fails, i + 1)

\* The formatter of the specifications that do not use one.
FmtUnused ==
    /\ formatter = NewFormatter
    /\ fed = <<>>
    /\ returned = <<>>
    /\ out = <<>>
    /\ run = "none"
    /\ flushes = 0

\* AsyncMermaidHandler.__init__: bounded queue, listener thread started.
NewAsync(k) ==
    /\ queue_size = k
    /\ queue = <<>>
    /\ listener = TRUE
    /\ consumer = [pc |-> "get", rec |-> 0]
    /\ producers = [p \in Producers |-> [pc |-> "idle", rec |-> 0]]
    /\ stopper = "idle"
    /\ handlers = [h \in 1..NumHandlers |-> NewHandler]
    /\ created = <<>>
    /\ owner = <<>>
    /\ accepted = {}
    /\ dropped = {}
    /\ dispatched = <<>>
    /\ stops = [calls |-> 0, before |-> {}, returned |-> FALSE, seen |-> 0]

\* The async handler of the specifications that do not use one.
AsyncUnused == NewAsync(1) /\ flush_fails = {}

(***************************************************************************)
(* LogContext over contextvars.ContextVar                                  *)
(***************************************************************************)
\* Number of dict objects created.
MaxObjects == 3
\* Number of logical executions: the main one and the ones it or they fork.
MaxExecs == 3
\* Depth of nested scope()/ascope() blocks in one execution.
MaxDepth == 2
\* Number of objects one interleaving creates: the dicts and the contexts of
\* the executions forked.
MaxMade == 5

Execs == 1..MaxExecs
Keys == {"participant", "trace_id"}
Values == {1, 2}
\* A key a dict does not hold.
Absent == 0

\* The dicts: every key is absent or bound to a value.
Dicts == [Keys -> {Absent} \cup Values]
EmptyDict == [k \in Keys |-> Absent]

\* The mappings passed to update(), scope(), ascope() and set_all().
Mappings ==
    { d \in Dicts : d["participant"] \in {Absent, 1} /\ d["trace_id"] = d["participant"] }

\* The mappings passed to scope() and ascope(): the ones that bind a key.
ScopeData == Mappings \ {EmptyDict}

\* The (key, value) pairs passed to set().
SetArgs == {<<"participant", 2>>}

\* A _get_store that never finds what the ContextVar holds.
GetStoreLost(h, st) == EmptyDict

\* LogContext._get_store: the dict the ContextVar holds, {} on LookupError.
GetStore(h, st) == IF st = 0 THEN EmptyDict ELSE h[st]

\* dict.update(data)
Merge(d, data) == [k \in Keys |-> IF data[k] # Absent THEN data[k] ELSE d[k]]

\* A variant of SetOp that writes into the current dict.
SetOpInPlace(h, st, key, value) ==
    IF st = 0
    THEN [heap |-> Append(h, [EmptyDict EXCEPT ![key] = value]), store |-> Len(h) + 1]
    ELSE [heap |-> [h EXCEPT ![st][key] = value], store |-> st]

\* LogContext.set: copy the current dict, change the copy, install the copy.
SetOp(h, st, key, value) ==
    [heap |-> Append(h, [GetStore(h, st) EXCEPT ![key] = value]),
     store |-> Len(h) + 1]

\* LogContext.update: nothing on an empty mapping, else copy, merge, install.
UpdateOp(h, st, data) ==
    IF data = EmptyDict
    THEN [heap |-> h, store |-> st]
    ELSE [heap |-> Append(h, Merge(GetStore(h, st), data)), store |-> Len(h) + 1]

\* LogContext.set_all: install a copy of the given dict.
SetAllOp(h, st, data) == [heap |-> Append(h, data), store |-> Len(h) + 1]

\* LogContext.scope / ascope up to the yield: copy, merge, install; the token
\* remembers the value the ContextVar had.
EnterOp(h, st, data) ==
    [heap |-> Append(h, Merge(GetStore(h, st), data)), store |-> Len(h) + 1,
     token |-> st]

\* A variant of ExitOp that undoes a scope by deleting the scope's keys.
ExitOpDeletesKeys(h, st, token, data) ==
    [heap |-> Append(h, [k \in Keys |-> IF data[k] # Absent THEN Absent
                                        ELSE GetStore(h, st)[k]]),
     store |-> Len(h) + 1]

\* LogContext.scope / ascope, the finally clause: _context_store.reset(token).
ExitOp(h, st, token, data) == [heap |-> h, store |-> token]

\* What get() and get_all() show to an execution.
View(x) == GetStore(heap, execs[x].store)

NewExec == [alive |-> FALSE, kind |-> "none", store |-> 0, scopes |-> <<>>]

\* The process as it starts: the main execution, no context set.
NewCtx ==
    /\ heap = <<>>
    /\ execs = [x \in Execs |-> IF x = 1
                                 THEN [NewExec EXCEPT !.alive = TRUE, !.kind = "main"]
                                 ELSE NewExec]

\* The context of the specifications that do not use one.
CtxUnused == NewCtx

\* The id current_trace_id() generates (str(uuid.uuid4())) when h holds the
\* dicts made so far: a value no dict has held and no caller has passed in.
FreshId(h) == 3 + Len(h)

\* LogContext.current_trace_id: the id under "trace_id" if the current dict
\* has one, else a new id that is set under "trace_id".
CurrentTraceIdOp(h, st) ==
    IF GetStore(h, st)["trace_id"] # Absent
    THEN [heap |-> h, store |-> st, id |-> GetStore(h, st)["trace_id"]]
    ELSE [heap |-> SetOp(h, st, "trace_id", FreshId(h)).heap,
          store |-> SetOp(h, st, "trace_id", FreshId(h)).store,
          id |-> FreshId(h)]

\* No current_trace_id() call made yet.
NewTracing ==
    tracing = [exec |-> 0, id |-> Absent, store |-> 0, again |-> FALSE]

\* The trace id history of the specifications that do not use one.
TraceUnused == NewTracing

\* LogContext.get_all: a copy of the current dict, a new object handed to
\* the caller. The variant hands out the dict the ContextVar holds.
GetAllOpNoCopy(h, st) ==
    IF st = 0
    THEN [heap |-> Append(h, EmptyDict), ref |-> Len(h) + 1]
    ELSE [heap |-> h, ref |-> st]

GetAllOp(h, st) == [heap |-> Append(h, GetStore(h, st)), ref |-> Len(h) + 1]

\* No caller holds a dict.
NoneHeld == held = {}

\* The callers of the specifications that keep no dict.
CowUnused == NoneHeld

(***************************************************************************)
(* The trace decorator (core/decorators.py)                                *)
(***************************************************************************)
\* The wrappers: wrapper for a function, async_wrapper for a coroutine.
WrapperKinds == {"sync", "async"}
\* The action names given to the decorator.
CallLabels == {"Action", "Fail"}
\* The value the traced function returns.
Results == {"ok"}
\* The exceptions the traced function raises, each with the message "oops":
\* ValueError derives from Exception; KeyboardInterrupt and
\* asyncio.CancelledError derive from BaseException only.
Raisable == {"ValueError", "KeyboardInterrupt", "CancelledError"}
ExceptionClasses == {"ValueError"}

\* str(e)
StrOf(exc) == "oops"

\* A wrapper without an except clause.
CaughtNever(exc) == FALSE

\* `except Exception as e` in wrapper and async_wrapper.
Caught(exc) == exc \in ExceptionClasses

\* _safe_repr of a short string: its repr, in quotes.
SafeRepr(v) == CASE v = "ok" -> "'ok'" [] OTHER -> "<unrepresentable>"

\* _format_args of a call without arguments: "" without capture_args, else
\* the join of no reprs.
FormatArgs(capture) == IF capture THEN "" ELSE ""

\* The event _log_interaction logs.
RequestEvent(c) ==
    [source |-> c.source, target |-> c.target, action |-> c.label,
     is_return |-> FALSE, is_error |-> FALSE, message |-> c.label,
     params |-> FormatArgs(c.capture), result |-> "",
     error_message |-> "", stack_trace |-> FALSE, collapsed |-> FALSE]

\* A _log_return that keeps the direction of the call.
ResponseEventForward(c, result) ==
    [source |-> c.source, target |-> c.target, action |-> c.label,
     is_return |-> TRUE, is_error |-> FALSE, message |-> "Return",
     params |-> "", result |-> IF c.capture THEN SafeRepr(result) ELSE "",
     error_message |-> "", stack_trace |-> FALSE, collapsed |-> FALSE]

\* The event _log_return logs: from the callee back to the caller.
ResponseEvent(c, result) ==
    [source |-> c.target, target |-> c.source, action |-> c.label,
     is_return |-> TRUE, is_error |-> FALSE, message |-> "Return",
     params |-> "", result |-> IF c.capture THEN SafeRepr(result) ELSE "",
     error_message |-> "", stack_trace |-> FALSE, collapsed |-> FALSE]

\* A _log_error that keeps the direction of the call.
ErrorEventForward(c, exc) ==
    [source |-> c.source, target |-> c.target, action |-> c.label,
     is_return |-> TRUE, is_error |-> TRUE, message |-> StrOf(exc),
     params |-> "", result |-> "", error_message |-> StrOf(exc),
     stack_trace |-> TRUE, collapsed |-> FALSE]

\* The event _log_error logs; traceback.format_exception is never empty.
ErrorEvent(c, exc) ==
    [source |-> c.target, target |-> c.source, action |-> c.label,
     is_return |-> TRUE, is_error |-> TRUE, message |-> StrOf(exc),
     params |-> "", result |-> "", error_message |-> StrOf(exc),
     stack_trace |-> TRUE, collapsed |-> FALSE]

\* The value the context holds for a participant's name.
NameValue(p) == IF p = "A" THEN 1 ELSE 2

\* No traced function has been called.
NewCall ==
    call = [pc |-> "idle", kind |-> "sync", source |-> "A", target |-> "B",
            label |-> "Action", capture |-> TRUE, n |-> 0,
            events |-> <<>>, thrown |-> "none", raised |-> "none",
            value |-> "none"]

\* The decorator of the specifications that trace no call.
CallUnused == NewCall

\* The name current_participant() returns for the value the context holds.
ValueName(v) == CASE v = 1 -> "A" [] v = 2 -> "B" [] OTHER -> "Unknown"

\* LogContext.current_participant
CurrentParticipantOp(h, st) == ValueName(GetStore(h, st)["participant"])

\* `source or LogContext.current_participant()` in the wrappers; a decorator
\* without a source argument has source None.
CurrentSource(source, h, st) ==
    IF source # "None" THEN source ELSE CurrentParticipantOp(h, st)

\* A wrapper whose scope sets the caller as the participant.
WrapperScopeOfSource(c, id) == [participant |-> NameValue(c.source), trace_id |-> id]

\* The data of the scope the wrappers run the traced function in:
\* {"participant": current_target, "trace_id": trace_id}.
WrapperScope(c, id) == [participant |-> NameValue(c.target), trace_id |-> id]

\* No call that ended.
NoneEnded == [how |-> "none", before |-> "none", after |-> "none"]

\* No traced call in progress and none made.
NewNest == nest = [frames |-> <<>>, ended |-> NoneEnded]

\* The call chain of the specifications that nest no calls.
NestUnused == NewNest

(***************************************************************************)
(* MermaidTraceMiddleware.dispatch                                         *)
(***************************************************************************)
\* The request event: source is the X-Source header, target the app name,
\* action and message "METHOD path"; a request without a query string.
DispatchRequestEvent(c) ==
    [source |-> c.source, target |-> c.target, action |-> c.label,
     is_return |-> FALSE, is_error |-> FALSE, message |-> c.label,
     params |-> "", result |-> "",
     error_message |-> "", stack_trace |-> FALSE, collapsed |-> FALSE]

\* The response event; status stands for "<status_code> (<duration>ms)".
DispatchResponseEvent(c, status) ==
    [source |-> c.target, target |-> c.source, action |-> c.label,
     is_return |-> TRUE, is_error |-> FALSE, message |-> "Return",
     params |-> "", result |-> status,
     error_message |-> "", stack_trace |-> FALSE, collapsed |-> FALSE]

\* An error event that is not marked as a return.
DispatchErrorEventNoReturn(c, exc) ==
    [source |-> c.target, target |-> c.source, action |-> c.label,
     is_return |-> FALSE, is_error |-> TRUE, message |-> StrOf(exc),
     params |-> "", result |-> "", error_message |-> StrOf(exc),
     stack_trace |-> FALSE, collapsed |-> FALSE]

\* The event logged when call_next raises.
DispatchErrorEvent(c, exc) ==
    [source |-> c.target, target |-> c.source, action |-> c.label,
     is_return |-> TRUE, is_error |-> TRUE, message |-> StrOf(exc),
     params |-> "", result |-> "", error_message |-> StrOf(exc),
     stack_trace |-> FALSE, collapsed |-> FALSE]

(***************************************************************************)
(* Threads on one sink                                                     *)
(***************************************************************************)
NoThread == "none"

\* Nobody holds the lock, no thread is in emit or flush.
NewThreads ==
    threads = [lock |-> NoThread,
               emitter |-> [pc |-> "idle", lines |-> <<>>],
               flusher |-> [pc |-> "idle", lines |-> <<>>]]

\* The threads of the specifications that use the sink from one thread.
ThreadsUnused == NewThreads

(***************************************************************************)
(* Failures inside MermaidHandlerMixin.emit                                *)
(***************************************************************************)
\* Number of failures injected into one sink.
MaxFailures == 2

\* The statements of emit that can raise: doRollover, _open, the write of
\* the header, format and the write of the line.
EmitSteps == {"rollover", "open", "header", "format", "write"}

\* What they raise.
SinkFailures == {"OSError", "ValueError"}

NoFailure == [step |-> "none", exc |-> "none"]
Failures == {NoFailure} \cup [step : EmitSteps, exc : SinkFailures]

\* An emit without its except clause.
EmitCaughtNever(exc) == FALSE

\* `except Exception` in emit: the classes that derive from Exception.
EmitCaught(exc) == exc \notin {"KeyboardInterrupt", "SystemExit", "CancelledError"}

\* emit up to the statement that raises: whether the statement is reached
\* with something to fail on, and the sink it leaves.
SinkEmitFails(s, e, step) ==
    CASE step = "rollover" ->
             [can |-> s.kind = "rotating" /\ ShouldRollover(s, e).result,
              sink |-> [ShouldRollover(s, e).sink EXCEPT !.stream = FALSE]]
      [] step = "open" ->
             [can |-> ~Rolled(s, e).stream, sink |-> Rolled(s, e)]
      [] step = "header" ->
             [can |-> EnsureHeader(Opened(Rolled(s, e))) # Opened(Rolled(s, e)),
              sink |-> Opened(Rolled(s, e))]
      [] step = "format" ->
             [can |-> TRUE, sink |-> EnsureHeader(Opened(Rolled(s, e)))]
      [] step = "write" ->
             [can |-> SinkEmitFormat(s, e).lines # <<>>,
              sink |-> SinkEmitFormat(s, e).sink]

\* Logger.info/error -> Handler.handle -> emit with the failure f: the sink
\* after it, whether handleError was called, and the exception that leaves
\* the logging call.
LogEvent(s, e, f) ==
    IF f = NoFailure
    THEN [sink |-> SinkEmit(s, e), reported |-> 0, escaped |-> "none"]
    ELSE [sink |-> SinkEmitFails(s, e, f.step).sink,
          reported |-> IF EmitCaught(f.exc) THEN 1 ELSE 0,
          escaped |-> IF EmitCaught(f.exc) THEN "none" ELSE f.exc]

\* Whether emit can fail with f on this sink and event.
CanFail(s, e, f) == IF f = NoFailure THEN TRUE ELSE SinkEmitFails(s, e, f.step).can

\* No failure so far, no traced call.
NewFaults ==
    faults = [failed |-> 0, reported |-> 0, pc |-> "idle",
              outcome |-> "none", seen |-> "none"]

\* The failures of the specifications that inject none.
FaultsUnused == NewFaults

(***************************************************************************)
(* logcapy.core.decorators.catch                                           *)
(***************************************************************************)
\* Number of calls and blocks one catch object guards.
MaxCalls == 3

\* The exception classes given as `exceptions` and `exclude`, and the ones
\* the guarded code raises.
CatchClasses == {"Exception", "ValueError", "KeyError"}
CatchRaisable == {"ValueError", "KeyError", "KeyboardInterrupt"}
NoClass == "none"

\* isinstance(exc, cls)
IsInstance(exc, cls) ==
    \/ exc = cls
    \/ cls = "Exception" /\ exc \in {"ValueError", "KeyError"}

\* What the guarded code does, and what reaches the caller.
Returns(v) == [kind |-> "return", value |-> v]
Raises(exc) == [kind |-> "raise", value |-> exc]
NotRun == [kind |-> "none", value |-> "none"]

CatchConfigs ==
    [exceptions : CatchClasses, reraise : BOOLEAN,
     default_return : {"None", "dflt"}, exclude : {NoClass} \cup CatchClasses]

\* catch._log_exception: the number of records it logs.
LogException(c, exc) ==
    IF c.exclude # NoClass /\ IsInstance(exc, c.exclude) THEN 0 ELSE 1

\* sync_wrapper / async_wrapper around a function that did `did`.
WrapperOutcome(c, did) ==
    IF did.kind = "raise" /\ IsInstance(did.value, c.exceptions)
    THEN [logged |-> LogException(c, did.value),
          result |-> IF c.reraise THEN did ELSE Returns(c.default_return)]
    ELSE [logged |-> 0, result |-> did]

\* __exit__ / __aexit__ after a block that did `did`; a block that ends
\* normally, or whose exception is suppressed, yields None.
ExitOutcome(c, did) ==
    IF did.kind = "raise" /\ IsInstance(did.value, c.exceptions)
    THEN [logged |-> LogException(c, did.value),
          result |-> IF c.reraise THEN did ELSE Returns("None")]
    ELSE [logged |-> 0, result |-> IF did.kind = "raise" THEN did ELSE Returns("None")]

\* catch.__init__
NewCatch(c) ==
    [config |-> c, calls |-> 0, logged |-> 0, use |-> "none",
     did |-> NotRun, result |-> NotRun]

\* The catch object of the specifications that use none.
CatchUnused ==
    catching = NewCatch([exceptions |-> "Exception", reraise |-> TRUE,
                         default_return |-> "None", exclude |-> NoClass])

(***************************************************************************)
(* asyncio.gather over traced coroutines                                   *)
(***************************************************************************)
\* Number of coroutines passed to one gather().
MaxTasks == 4
Tasks == 1..MaxTasks

\* What the decorator of the gathered coroutine was given.
GatherCall(capture) ==
    [source |-> "A", target |-> "B", label |-> "Action", capture |-> capture]

\* gather(worker(), ..., worker()) with n coroutines: ensure_future makes a
\* task of each, in order; none has run yet.
NewGather(n, body, capture) ==
    [n |-> n, body |-> body, capture |-> capture,
     pc |-> [i \in Tasks |-> IF i <= n THEN "new" ELSE "none"]]

\* The program of the specifications that gather nothing.
GatherUnused == gather = NewGather(0, "straight", TRUE)

(***************************************************************************)
(* Specification SpecFmt: one formatter fed arbitrary events, flushed at   *)
(* arbitrary points.                                                       *)
(***************************************************************************)
InitFmt ==
    /\ NestUnused
    /\ CatchUnused
    /\ FaultsUnused
    /\ ThreadsUnused
    /\ GatherUnused
    /\ formatter = NewFormatter
    /\ fed = <<>>
    /\ returned = <<>>
    /\ out = <<>>
    /\ run = "none"
    /\ flushes = 0
    /\ SinkUnused
    /\ AsyncUnused
    /\ CtxUnused
    /\ SanUnused
    /\ TraceUnused
    /\ CowUnused
    /\ CallUnused

\* format(record) on the formatter.
FormatCall ==
    /\ Len(fed) < MaxEvents
    /\ \E e \in FlowEvent :
          LET r == Format(formatter, e)
          IN  /\ formatter' = r.formatter
              /\ fed' = Append(fed, e)
              /\ returned' = Append(returned, r.lines)
              /\ out' = out \o r.lines
    /\ UNCHANGED <<run, flushes, notFmt>>

\* flush() on the formatter.
FlushCall ==
    /\ LET r == Flush(formatter)
       IN  /\ formatter' = r.formatter
           /\ out' = out \o r.lines
           /\ flushes' = IF r.lines # <<>> /\ flushes = 0 THEN 1 ELSE flushes
    /\ UNCHANGED <<fed, returned, run, notFmt>>

NextFmt == FormatCall \/ FlushCall

SpecFmt == InitFmt /\ [][NextFmt]_vars

(***************************************************************************)
(* Specification SpecSan: one formatter sanitizing participant names.      *)
(***************************************************************************)
InitSan ==
    /\ NestUnused
    /\ CatchUnused
    /\ FaultsUnused
    /\ ThreadsUnused
    /\ GatherUnused
    /\ FmtUnused
    /\ SinkUnused
    /\ AsyncUnused
    /\ CtxUnused
    /\ NewSanitizer
    /\ TraceUnused
    /\ CowUnused
    /\ CallUnused

\* formatter._sanitize(name), from format_event.
SanitizeCall ==
    /\ \E name \in RawNames :
          /\ name \in DOMAIN participant_map
                \/ Cardinality(DOMAIN participant_map) < MaxNames
          /\ LET r == Sanitize(participant_map, used_ids, name)
             IN  /\ participant_map' = r.map
                 /\ used_ids' = r.used
    /\ UNCHANGED notSan

NextSan == SanitizeCall

SpecSan == InitSan /\ [][NextSan]_vars

(***************************************************************************)
(* Specification SpecRun: a fresh formatter fed a run of events of one     *)
(* signature ("same"), or a call and its structural return over and over   *)
(* ("pair"), and flushed once at the end.                                  *)
(***************************************************************************)
InitRun ==
    /\ NestUnused
    /\ CatchUnused
    /\ FaultsUnused
    /\ ThreadsUnused
    /\ GatherUnused
    /\ formatter = NewFormatter
    /\ fed = <<>>
    /\ returned = <<>>
    /\ out = <<>>
    /\ run \in {"same", "pair"}
    /\ flushes = 0
    /\ SinkUnused
    /\ AsyncUnused
    /\ CtxUnused
    /\ SanUnused
    /\ TraceUnused
    /\ CowUnused
    /\ CallUnused

\* The (source, target, action, is_return) signature the run expects next.
Counterpart(k) == <<k[2], k[1], k[3], TRUE>>

NextKey ==
    IF run = "same" \/ Len(fed) % 2 = 0
    THEN EventKey(fed[1])
    ELSE Counterpart(EventKey(fed[1]))

FeedStep(e) ==
    LET r == Format(formatter, e)
    IN  /\ formatter' = r.formatter
        /\ fed' = Append(fed, e)
        /\ returned' = Append(returned, r.lines)
        /\ out' = out \o r.lines
        /\ UNCHANGED <<run, flushes, notFmt>>

\* format() with one more event of the run's single signature.
FeedSame ==
    /\ run = "same" /\ flushes = 0
    /\ Len(fed) < MaxRepeat
    /\ \E e \in FlowEvent :
          /\ ~e.is_error
          /\ fed # <<>> => EventKey(e) = NextKey
          /\ FeedStep(e)

\* format() with the next event of the call/return alternation.
FeedPair ==
    /\ run = "pair" /\ flushes = 0
    /\ Len(fed) < 2 * MaxRepeat
    /\ \E e \in FlowEvent :
          /\ ~e.is_error
          /\ fed = <<>> => ~e.is_return
          /\ fed # <<>> => EventKey(e) = NextKey
          /\ FeedStep(e)

\* The flush() that ends the run.
FlushRun ==
    /\ flushes = 0
    /\ fed # <<>>
    /\ run = "pair" => Len(fed) % 2 = 0
    /\ LET r == Flush(formatter)
       IN  /\ formatter' = r.formatter
           /\ out' = out \o r.lines
    /\ flushes' = 1
    /\ UNCHANGED <<fed, returned, run, notFmt>>

NextRun == FeedSame \/ FeedPair \/ FlushRun

SpecRun == InitRun /\ [][NextRun]_vars

(***************************************************************************)
(* Specification SpecCycle: a fresh formatter fed a cycle of 2, 3 or 4     *)
(* events of distinct signatures over and over, flushed at one arbitrary   *)
(* point.                                                                  *)
(***************************************************************************)
CycleRuns == {"cycle2", "cycle3", "cycle4"}

\* The number of events of the run's cycle.
CycleLen == IF run = "cycle2" THEN 2 ELSE IF run = "cycle3" THEN 3 ELSE 4

\* The events a and b are a call and its return or error, either way round.
Counterparts(a, b) ==
    \/ ~a.is_return /\ EventKey(b) = Counterpart(EventKey(a))
    \/ ~b.is_return /\ EventKey(a) = Counterpart(EventKey(b))

InitCycle ==
    /\ NestUnused
    /\ CatchUnused
    /\ FaultsUnused
    /\ ThreadsUnused
    /\ GatherUnused
    /\ formatter = NewFormatter
    /\ fed = <<>>
    /\ returned = <<>>
    /\ out = <<>>
    /\ run \in CycleRuns
    /\ flushes = 0
    /\ SinkUnused
    /\ AsyncUnused
    /\ CtxUnused
    /\ SanUnused
    /\ TraceUnused
    /\ CowUnused
    /\ CallUnused

\* format() with the next event of the cycle: the first round picks events
\* of distinct signatures (for a cycle of two, events that are not a call
\* and its return), every later round repeats them.
FeedCycle ==
    /\ Len(fed) < CycleLen * MaxRepeat
    /\ \E e \in FlowEvent :
          /\ Len(fed) < CycleLen =>
                /\ \A i \in 1..Len(fed) : EventKey(fed[i]) # EventKey(e)
                /\ run = "cycle2" => \A i \in 1..Len(fed) : ~Counterparts(fed[i], e)
          /\ Len(fed) >= CycleLen => e = fed[Len(fed) + 1 - CycleLen]
          /\ FeedStep(e)

\* flush() on the formatter, once in a run, at any point of it.
FlushCycle == flushes = 0 /\ FlushCall

NextCycle == FeedCycle \/ FlushCycle

SpecCycle == InitCycle /\ [][NextCycle]_vars

(***************************************************************************)
(* Specification SpecOrder: one formatter fed arbitrary call, return and   *)
(* error events that all carry the same text, flushed at arbitrary points. *)
(***************************************************************************)
OrderEvents ==
    { e \in FlowEvent : /\ e.message \in {"m1", "Return"} /\ e.result \in {"", "m1"}
                        /\ e.is_error => e.stack_trace }

\* format(record) on the formatter.
FormatOrder ==
    /\ Len(fed) < MaxEvents
    /\ \E e \in OrderEvents : FeedStep(e)

NextOrder == FormatOrder \/ FlushCall

SpecOrder == InitFmt /\ [][NextOrder]_vars

(***************************************************************************)
(* Specification SpecSink: one file sink driven by emit / flush / close.   *)
(***************************************************************************)
\* Number of emit() calls explored on one sink.
MaxEmits == 5

\* The events logged through the sink.
SinkEvents ==
    { e \in FlowEvent : /\ ~e.is_error
                        /\ e.message \in {"m1", "Return"} /\ e.result \in {"", "m1"}
                        /\ e.is_return => e.source = "B" }

InitSink ==
    /\ NestUnused
    /\ CatchUnused
    /\ FaultsUnused
    /\ ThreadsUnused
    /\ GatherUnused
    /\ FmtUnused
    /\ AsyncUnused
    /\ CtxUnused
    /\ SanUnused
    /\ TraceUnused
    /\ CowUnused
    /\ CallUnused
    /\ \E c \in SinkConfigs :
       \E pre \in {"missing", "empty", "old"} :
          sink = NewSink(c, pre # "missing", IF pre = "old" THEN OldContent ELSE <<>>)
    /\ emits = 0

\* handler.emit(record) with a record that carries a FlowEvent.
Emit ==
    /\ emits < MaxEmits
    /\ \E e \in SinkEvents : sink' = SinkEmit(sink, e)
    /\ emits' = emits + 1
    /\ UNCHANGED notSink

\* handler.emit(record) with a record that has no flow_event: ignored.
EmitOther == UNCHANGED vars

\* handler.flush()
FlushSink ==
    /\ sink' = SinkFlush(sink)
    /\ UNCHANGED <<emits, notSink>>

\* handler.close()
CloseSink ==
    /\ sink' = SinkClose(sink)
    /\ UNCHANGED <<emits, notSink>>

NextSink == Emit \/ EmitOther \/ FlushSink \/ CloseSink

SpecSink == InitSink /\ [][NextSink]_vars

(***************************************************************************)
(* Specification SpecAsync: producers logging through one                   *)
(* AsyncMermaidHandler, its listener thread, and a thread calling stop().   *)
(***************************************************************************)
\* The events logged through the async handler.
AsyncEvents ==
    { e \in FlowEvent : /\ ~e.is_error /\ e.source = "A"
                        /\ e.message \in {"m1", "Return"} /\ e.result \in {"", "m1"} }

InitAsync ==
    /\ NestUnused
    /\ CatchUnused
    /\ FaultsUnused
    /\ ThreadsUnused
    /\ GatherUnused
    /\ FmtUnused
    /\ SinkUnused
    /\ CtxUnused
    /\ SanUnused
    /\ TraceUnused
    /\ CowUnused
    /\ CallUnused
    /\ \E k \in 1..MaxQueueSize : NewAsync(k)
    /\ flush_fails = {}

\* A producer enters emit(record).
EmitBegin(p) ==
    /\ producers[p].pc = "idle"
    /\ Len(created) < MaxRecords
    /\ \E e \in AsyncEvents : created' = Append(created, e)
    /\ producers' = [producers EXCEPT ![p] = [pc |-> "put", rec |-> Len(created) + 1]]
    /\ UNCHANGED <<queue_size, flush_fails, queue, listener, consumer, stopper, handlers, owner,
                   accepted, dropped, dispatched, stops, notAsync>>

\* emit: queue.put(record, block=True, timeout=0.1) finds a free slot.
EmitPut(p) ==
    /\ producers[p].pc = "put"
    /\ ~QueueFull
    /\ queue' = Append(queue, producers[p].rec)
    /\ accepted' = accepted \cup {producers[p].rec}
    /\ producers' = [producers EXCEPT ![p] = [pc |-> "idle", rec |-> 0]]
    /\ UNCHANGED <<queue_size, flush_fails, listener, consumer, stopper, handlers, created, owner,
                   dropped, dispatched, stops, notAsync>>

\* A variant of EmitFull that makes room by discarding the oldest record.
EmitFullDropsOldest(p) ==
    /\ producers[p].pc = "put"
    /\ QueueFull
    /\ queue' = Append(Tail(queue), producers[p].rec)
    /\ dropped' = dropped \cup {Head(queue)}
    /\ producers' = [producers EXCEPT ![p] = [pc |-> "idle", rec |-> 0]]
    /\ UNCHANGED <<queue_size, flush_fails, listener, consumer, stopper, handlers, created, owner,
                   accepted, dispatched, stops, notAsync>>

\* emit: the put times out on a full queue, queue.Full is caught and the
\* record is dropped (with a printed warning at WARNING and above).
EmitFull(p) ==
    /\ producers[p].pc = "put"
    /\ QueueFull
    /\ dropped' = dropped \cup {producers[p].rec}
    /\ producers' = [producers EXCEPT ![p] = [pc |-> "idle", rec |-> 0]]
    /\ UNCHANGED <<queue_size, flush_fails, queue, listener, consumer, stopper, handlers,
                   created, owner, accepted, dispatched, stops, notAsync>>

\* A variant of ConsumerGet that takes the newest item of the queue.
ConsumerGetNewest ==
    /\ consumer.pc = "get"
    /\ queue # <<>>
    /\ queue' = SubSeq(queue, 1, Len(queue) - 1)
    /\ consumer' = IF queue[Len(queue)] = Sentinel
                    THEN [pc |-> "done", rec |-> 0]
                    ELSE [pc |-> "handle", rec |-> queue[Len(queue)]]
    /\ UNCHANGED <<queue_size, flush_fails, listener, producers, stopper, handlers, created, owner,
                   accepted, dropped, dispatched, stops, notAsync>>

\* QueueListener._monitor: dequeue(True); the sentinel ends the thread.
ConsumerGet ==
    /\ consumer.pc = "get"
    /\ queue # <<>>
    /\ queue' = Tail(queue)
    /\ consumer' = IF Head(queue) = Sentinel
                    THEN [pc |-> "done", rec |-> 0]
                    ELSE [pc |-> "handle", rec |-> Head(queue)]
    /\ UNCHANGED <<queue_size, flush_fails, listener, producers, stopper, handlers, created, owner,
                   accepted, dropped, dispatched, stops, notAsync>>

\* QueueListener.handle: every handler handles the record (handler levels
\* are left at NOTSET, so respect_handler_level filters nothing).
ConsumerHandle ==
    /\ consumer.pc = "handle"
    /\ handlers' = [h \in 1..NumHandlers |->
                        SinkEmit(handlers[h], created[consumer.rec])]
    /\ dispatched' = Append(dispatched, consumer.rec)
    /\ consumer' = [pc |-> "get", rec |-> 0]
    /\ UNCHANGED <<queue_size, flush_fails, queue, listener, producers, stopper, created, owner,
                   accepted, dropped, stops, notAsync>>

\* stop() when self._listener is None: nothing to do.
StopNoListener ==
    /\ stopper = "idle"
    /\ stops.calls < MaxStops
    /\ ~listener
    /\ stops' = [calls |-> stops.calls + 1, before |-> accepted, returned |-> TRUE,
                 seen |-> IF stops.calls = 0 THEN Len(created) ELSE stops.seen]
    /\ UNCHANGED <<queue_size, flush_fails, queue, listener, consumer, producers, stopper,
                   handlers, created, owner, accepted, dropped, dispatched, notAsync>>

\* stop(): listener.stop() -> enqueue_sentinel() -> put_nowait raises
\* queue.Full on a full queue; stop()'s outer except swallows it and returns.
StopFull ==
    /\ stopper = "idle"
    /\ stops.calls < MaxStops
    /\ listener
    /\ QueueFull
    /\ stops' = [calls |-> stops.calls + 1, before |-> accepted, returned |-> TRUE,
                 seen |-> IF stops.calls = 0 THEN Len(created) ELSE stops.seen]
    /\ UNCHANGED <<queue_size, flush_fails, queue, listener, consumer, producers, stopper,
                   handlers, created, owner, accepted, dropped, dispatched, notAsync>>

\* stop(): listener.stop() enqueues the sentinel and starts joining the thread.
StopSentinel ==
    /\ stopper = "idle"
    /\ stops.calls < MaxStops
    /\ listener
    /\ ~QueueFull
    /\ queue' = Append(queue, Sentinel)
    /\ stopper' = "join"
    /\ stops' = [calls |-> stops.calls + 1, before |-> accepted, returned |-> FALSE,
                 seen |-> IF stops.calls = 0 THEN Len(created) ELSE stops.seen]
    /\ UNCHANGED <<queue_size, flush_fails, listener, consumer, producers, handlers, created, owner,
                   accepted, dropped, dispatched, notAsync>>

\* stop(): the thread has ended, so join returns; _listener = None; every
\* handler is flushed; stop() returns.
StopJoin ==
    /\ stopper = "join"
    /\ consumer.pc = "done"
    /\ listener' = FALSE
    /\ handlers' = FlushAll(handlers, flush_fails, 1)
    /\ stopper' = "idle"
    /\ stops' = [stops EXCEPT !.returned = TRUE]
    /\ UNCHANGED <<queue_size, flush_fails, queue, consumer, producers, created, owner, accepted,
                   dropped, dispatched, notAsync>>

NextAsync ==
    \/ \E p \in Producers : EmitBegin(p)
    \/ \E p \in Producers : EmitPut(p)
    \/ \E p \in Producers : EmitFull(p)
    \/ ConsumerGet
    \/ ConsumerHandle
    \/ StopNoListener
    \/ StopFull
    \/ StopSentinel
    \/ StopJoin

SpecAsync == InitAsync /\ [][NextAsync]_vars

(***************************************************************************)
(* Specification SpecStop: SpecAsync with one producer and downstream      *)
(* handlers whose flush() raises.                                          *)
(***************************************************************************)
InitStop ==
    /\ NestUnused
    /\ CatchUnused
    /\ FaultsUnused
    /\ ThreadsUnused
    /\ GatherUnused
    /\ FmtUnused
    /\ SinkUnused
    /\ CtxUnused
    /\ SanUnused
    /\ TraceUnused
    /\ CowUnused
    /\ CallUnused
    /\ \E k \in 1..MaxQueueSize : NewAsync(k)
    /\ flush_fails \in SUBSET (1..NumHandlers)

NextStop ==
    \/ EmitBegin("p1")
    \/ EmitPut("p1")
    \/ EmitFull("p1")
    \/ ConsumerGet
    \/ ConsumerHandle
    \/ StopNoListener
    \/ StopFull
    \/ StopSentinel
    \/ StopJoin

SpecStop == InitStop /\ [][NextStop]_vars

(***************************************************************************)
(* Specification SpecFifo: SpecAsync with the producer of every record     *)
(* remembered.                                                             *)
(***************************************************************************)
\* A producer enters emit(record); the record's producer is remembered.
EmitBeginBy(p) ==
    /\ producers[p].pc = "idle"
    /\ Len(created) < MaxRecords
    /\ \E e \in AsyncEvents : created' = Append(created, e)
    /\ owner' = Append(owner, p)
    /\ producers' = [producers EXCEPT ![p] = [pc |-> "put", rec |-> Len(created) + 1]]
    /\ UNCHANGED <<queue_size, flush_fails, queue, listener, consumer, stopper, handlers,
                   accepted, dropped, dispatched, stops, notAsync>>

NextFifo ==
    \/ \E p \in Producers : EmitBeginBy(p)
    \/ \E p \in Producers : EmitPut(p)
    \/ \E p \in Producers : EmitFull(p)
    \/ ConsumerGet
    \/ ConsumerHandle
    \/ StopNoListener
    \/ StopFull
    \/ StopSentinel
    \/ StopJoin

SpecFifo == InitAsync /\ [][NextFifo]_vars

(***************************************************************************)
(* Specification SpecCtx: executions that fork threads and asyncio tasks   *)
(* and use LogContext, interleaved in any order.                           *)
(***************************************************************************)
InitCtx ==
    /\ NestUnused
    /\ CatchUnused
    /\ FaultsUnused
    /\ ThreadsUnused
    /\ GatherUnused
    /\ FmtUnused
    /\ SinkUnused
    /\ AsyncUnused
    /\ SanUnused
    /\ TraceUnused
    /\ CowUnused
    /\ CallUnused
    /\ NewCtx

Install(x, r) ==
    /\ heap' = r.heap
    /\ execs' = [execs EXCEPT ![x].store = r.store]
    /\ UNCHANGED notCtx

\* LogContext.set(key, value) in execution x.
CtxSet(x) ==
    /\ execs[x].alive /\ Len(heap) < MaxObjects
    /\ \E a \in SetArgs : Install(x, SetOp(heap, execs[x].store, a[1], a[2]))

\* LogContext.update(data) in execution x.
CtxUpdate(x) ==
    /\ execs[x].alive /\ Len(heap) < MaxObjects
    /\ \E d \in Mappings : Install(x, UpdateOp(heap, execs[x].store, d))

\* LogContext.set_all(data) in execution x.
CtxSetAll(x) ==
    /\ execs[x].alive /\ Len(heap) < MaxObjects
    /\ \E d \in Mappings : Install(x, SetAllOp(heap, execs[x].store, d))

EnterScope(x) ==
    /\ execs[x].alive /\ Len(heap) < MaxObjects
    /\ Len(execs[x].scopes) < MaxDepth
    /\ \E d \in ScopeData :
          LET r == EnterOp(heap, execs[x].store, d)
          IN  /\ heap' = r.heap
              /\ execs' = [execs EXCEPT
                    ![x].store = r.store,
                    ![x].scopes = Append(@, [token |-> r.token, data |-> d,
                                             installed |-> r.store,
                                             before |-> View(x)])]
    /\ UNCHANGED notCtx

\* Entering a `with LogContext.scope(data):` block in execution x.
ScopeEnter(x) == EnterScope(x)

\* Entering an `async with LogContext.ascope(data):` block in task x.
AScopeEnter(x) == EnterScope(x)

\* Leaving the innermost scope()/ascope() block of execution x, normally or
\* because the body raised.
ScopeExit(x) ==
    /\ execs[x].alive
    /\ execs[x].scopes # <<>>
    /\ LET n == Len(execs[x].scopes)
           top == execs[x].scopes[n]
           r == ExitOp(heap, execs[x].store, top.token, top.data)
       IN  /\ Len(r.heap) <= MaxObjects
           /\ heap' = r.heap
           /\ execs' = [execs EXCEPT ![x].store = r.store,
                                      ![x].scopes = SubSeq(@, 1, n - 1)]
    /\ UNCHANGED notCtx

\* The ways an execution is spawned: asyncio.create_task()/gather() and
\* threading.Thread.start().
ForkKinds == {"task", "thread"}

\* Execution x spawns execution y: an asyncio task runs in a copy of x's
\* context, whose ContextVar holds the dict x's holds; a thread starts with
\* an empty context, in which the ContextVar is not set.
ForkAs(x, y, kind) ==
    /\ execs[x].alive
    /\ ~execs[y].alive
    /\ \A z \in Execs : z < y => execs[z].alive
    /\ execs' = [execs EXCEPT ![y] =
                    [alive |-> TRUE, kind |-> kind,
                     store |-> IF kind = "task" THEN execs[x].store ELSE 0,
                     scopes |-> <<>>]]
    /\ UNCHANGED <<heap, notCtx>>

\* Execution x creates an asyncio task or starts a thread.
Fork(x) == \E y \in Execs, kind \in ForkKinds : ForkAs(x, y, kind)

\* The dicts created so far and the contexts of the executions forked so far.
Made == Len(heap) + Cardinality({z \in Execs : execs[z].alive}) - 1

\* A step that creates an object is taken while fewer than MaxMade exist.
NextCtx ==
    \E x \in Execs :
        \/ Made < MaxMade /\ CtxSet(x)
        \/ Made < MaxMade /\ CtxUpdate(x)
        \/ Made < MaxMade /\ CtxSetAll(x)
        \/ Made < MaxMade /\ ScopeEnter(x)
        \/ Made < MaxMade /\ AScopeEnter(x)
        \/ ScopeExit(x)
        \/ Made < MaxMade /\ Fork(x)

SpecCtx == InitCtx /\ [][NextCtx]_vars

(***************************************************************************)
(* Specification SpecTrace: two executions that use LogContext as in       *)
(* SpecCtx and also call current_trace_id().                               *)
(***************************************************************************)
InitTrace ==
    /\ NestUnused
    /\ CatchUnused
    /\ FaultsUnused
    /\ ThreadsUnused
    /\ GatherUnused
    /\ FmtUnused
    /\ SinkUnused
    /\ AsyncUnused
    /\ SanUnused
    /\ CowUnused
    /\ CallUnused
    /\ NewCtx
    /\ NewTracing

\* LogContext.current_trace_id() in execution x; the call is noted or not.
CurrentTraceId(x) ==
    /\ execs[x].alive
    /\ LET r == CurrentTraceIdOp(heap, execs[x].store)
       IN  /\ Len(r.heap) <= MaxObjects
           /\ heap' = r.heap
           /\ execs' = [execs EXCEPT ![x].store = r.store]
           /\ \/ tracing' = [exec |-> x, id |-> r.id, store |-> r.store,
                              again |-> /\ tracing.exec = x
                                        /\ tracing.store = execs[x].store]
              \/ UNCHANGED tracing
    /\ UNCHANGED notTrace

\* The executions of SpecTrace: the main one and one task or thread it forks.
TraceExecs == {1, 2}

NextTrace ==
    \E x \in TraceExecs :
        \/ CurrentTraceId(x)
        \/ CtxSet(x)
        \/ CtxUpdate(x)
        \/ CtxSetAll(x)
        \/ ScopeEnter(x)
        \/ AScopeEnter(x)
        \/ ScopeExit(x)
        \/ (Fork(x) /\ \A y \in Execs \ TraceExecs : ~execs'[y].alive)

SpecTrace == InitTrace /\ [][NextTrace]_vars

(***************************************************************************)
(* Specification SpecCow: two executions that use LogContext and keep the  *)
(* dicts get_all() returns, change them and pass them to set_all().        *)
(***************************************************************************)
InitCow ==
    /\ NestUnused
    /\ CatchUnused
    /\ FaultsUnused
    /\ ThreadsUnused
    /\ GatherUnused
    /\ FmtUnused
    /\ SinkUnused
    /\ AsyncUnused
    /\ SanUnused
    /\ TraceUnused
    /\ CallUnused
    /\ NewCtx
    /\ NoneHeld

\* d = LogContext.get_all() in execution x; the caller keeps d.
CtxGetAll(x) ==
    /\ execs[x].alive /\ Len(heap) < MaxObjects
    /\ LET r == GetAllOp(heap, execs[x].store)
       IN  /\ heap' = r.heap
           /\ held' = held \cup {r.ref}
    /\ UNCHANGED <<execs, notCow>>

\* LogContext.set_all(d) in execution x with a dict d the caller holds.
CtxSetAllOf(x) ==
    /\ execs[x].alive /\ Len(heap) < MaxObjects
    /\ \E r \in held : Install(x, SetAllOp(heap, execs[x].store, heap[r]))

\* What the callers do to a dict d they hold: d["participant"] = 1 and
\* del d["trace_id"].
MutateArgs == {<<"participant", 1>>, <<"trace_id", Absent>>}

\* A caller changes a dict it holds.
CallerMutate ==
    /\ \E r \in held, a \in MutateArgs :
          /\ heap[r][a[1]] # a[2]
          /\ heap' = [heap EXCEPT ![r][a[1]] = a[2]]
    /\ UNCHANGED <<execs, held, notCow>>

\* The executions of SpecCow: the main one and one task or thread it forks.
CowExecs == {1, 2}

NextCow ==
    \/ \E x \in CowExecs :
          \/ CtxSet(x)
          \/ CtxUpdate(x)
          \/ CtxSetAllOf(x)
          \/ CtxGetAll(x)
          \/ ScopeEnter(x)
          \/ AScopeEnter(x)
          \/ ScopeExit(x)
          \/ (Fork(x) /\ \A y \in Execs \ CowExecs : ~execs'[y].alive)
    \/ CallerMutate

SpecCow == InitCow /\ [][NextCow]_vars

(***************************************************************************)
(* Specification SpecCall: a function or coroutine decorated with          *)
(* @trace(source="A", target="B", action=...) is called without arguments  *)
(* in the main execution, one call after the other, with the flow logger   *)
(* configured by configure_flow(file): one MermaidFileHandler with a       *)
(* MermaidFormatter, which the program flushes and closes at any time.     *)
(***************************************************************************)
InitCall ==
    /\ NestUnused
    /\ CatchUnused
    /\ FaultsUnused
    /\ ThreadsUnused
    /\ GatherUnused
    /\ FmtUnused
    /\ AsyncUnused
    /\ SanUnused
    /\ TraceUnused
    /\ CowUnused
    /\ NewCtx
    /\ NewCall
    /\ \E c \in SinkConfigs, exists \in BOOLEAN :
          /\ c.kind = "file"
          /\ sink = NewSink(c, exists, <<>>)
    /\ emits = 0

\* wrapper / async_wrapper up to the call of the traced function:
\* current_trace_id(), _log_interaction, then scope()/ascope() is entered.
CallBegin ==
    /\ call.pc # "body"
    /\ \E kind \in WrapperKinds, label \in CallLabels, capture \in BOOLEAN :
          LET c == [call EXCEPT !.pc = "body", !.kind = kind, !.label = label,
                                !.capture = capture,
                                !.thrown = "none", !.raised = "none",
                                !.value = "none"]
              t == CurrentTraceIdOp(heap, execs[1].store)
              d == [participant |-> NameValue(c.target), trace_id |-> t.id]
              r == EnterOp(t.heap, t.store, d)
          IN  /\ Len(r.heap) <= MaxObjects
              /\ sink' = SinkEmit(sink, RequestEvent(c))
              /\ emits' = emits + 1
              /\ heap' = r.heap
              /\ execs' = [execs EXCEPT
                    ![1].store = r.store,
                    ![1].scopes = Append(@, [token |-> r.token, data |-> d,
                                             installed |-> r.store,
                                             before |-> GetStore(t.heap, t.store)])]
              /\ call' = [c EXCEPT !.events = <<RequestEvent(c)>>]
    /\ UNCHANGED notCallSink

\* The scope()/ascope() block of the wrapper ends.
CallScopeExit ==
    LET n == Len(execs[1].scopes)
        top == execs[1].scopes[n]
        r == ExitOp(heap, execs[1].store, top.token, top.data)
    IN  /\ heap' = r.heap
        /\ execs' = [execs EXCEPT ![1].store = r.store,
                                   ![1].scopes = SubSeq(@, 1, n - 1)]

\* The traced function returns: _log_return, the scope ends, the wrapper
\* returns the result.
CallReturn ==
    /\ call.pc = "body"
    /\ \E result \in Results :
          /\ sink' = SinkEmit(sink, ResponseEvent(call, result))
          /\ call' = [call EXCEPT !.pc = "done", !.n = @ + 1, !.value = result,
                                  !.events = Append(@, ResponseEvent(call, result))]
    /\ emits' = emits + 1
    /\ CallScopeExit
    /\ UNCHANGED notCallSink

\* The traced function raises: _log_error if the except clause catches the
\* exception, the scope ends, the exception leaves the wrapper.
CallRaise ==
    /\ call.pc = "body"
    /\ \E exc \in Raisable :
          IF Caught(exc)
          THEN /\ sink' = SinkEmit(sink, ErrorEvent(call, exc))
               /\ emits' = emits + 1
               /\ call' = [call EXCEPT !.pc = "done", !.n = @ + 1,
                                       !.thrown = exc, !.raised = exc,
                                       !.events = Append(@, ErrorEvent(call, exc))]
          ELSE /\ UNCHANGED <<sink, emits>>
               /\ call' = [call EXCEPT !.pc = "done", !.n = @ + 1,
                                       !.thrown = exc, !.raised = exc]
    /\ CallScopeExit
    /\ UNCHANGED notCallSink

NextCall ==
    \/ CallBegin
    \/ CallReturn
    \/ CallRaise
    \/ FlushSink
    \/ (CloseSink /\ call.pc # "body")

SpecCall == InitCall /\ [][NextCall]_vars

(***************************************************************************)
(* Specification SpecNest: traced functions and coroutines that call       *)
(* traced functions, in the main execution, to a depth of MaxDepth: each   *)
(* decorated with a target and with or without a source; the program sets  *)
(* the participant at top level or leaves it unset.                        *)
(***************************************************************************)
InitNest ==
    /\ CatchUnused
    /\ FaultsUnused
    /\ ThreadsUnused
    /\ GatherUnused
    /\ FmtUnused
    /\ AsyncUnused
    /\ SanUnused
    /\ TraceUnused
    /\ CowUnused
    /\ SinkUnused
    /\ CallUnused
    /\ NewCtx
    /\ NewNest

\* LogContext.set_participant(name) by the program, outside every traced
\* call.
NestSetParticipant ==
    /\ nest.frames = <<>>
    /\ CtxSet(1)

\* wrapper / async_wrapper up to the call of the traced function: the source
\* is resolved, current_trace_id(), the call event is logged with that
\* source, then scope()/ascope() is entered.
NestBegin ==
    /\ Len(nest.frames) < MaxDepth
    /\ \E source \in {"None", "A"}, target \in Participants :
          LET c == [source |-> CurrentSource(source, heap, execs[1].store),
                    target |-> target, label |-> "Action", capture |-> TRUE]
              t == CurrentTraceIdOp(heap, execs[1].store)
              d == WrapperScope(c, t.id)
              r == EnterOp(t.heap, t.store, d)
          IN  /\ Len(r.heap) <= MaxObjects + MaxDepth
              /\ heap' = r.heap
              /\ execs' = [execs EXCEPT
                    ![1].store = r.store,
                    ![1].scopes = Append(@, [token |-> r.token, data |-> d,
                                             installed |-> r.store,
                                             before |-> GetStore(t.heap, t.store)])]
              /\ nest' = [nest EXCEPT !.frames = Append(@,
                            [source |-> RequestEvent(c).source,
                             target |-> RequestEvent(c).target,
                             explicit |-> source # "None",
                             before |-> CurrentParticipantOp(heap, execs[1].store)])]
    /\ UNCHANGED notNestCtx

\* The innermost traced function ends: the scope's finally clause resets the
\* context, and the wrapper returns or lets the exception go on.
NestEnd(how) ==
    /\ nest.frames # <<>>
    /\ CallScopeExit
    /\ LET n == Len(nest.frames)
           top == execs[1].scopes[Len(execs[1].scopes)]
           r == ExitOp(heap, execs[1].store, top.token, top.data)
       IN  nest' = [frames |-> SubSeq(nest.frames, 1, n - 1),
                    ended |-> [how |-> how, before |-> nest.frames[n].before,
                               after |-> CurrentParticipantOp(r.heap, r.store)]]
    /\ UNCHANGED notNestCtx

\* The innermost traced function returns.
NestReturn == NestEnd("return")

\* The innermost traced function raises, whatever the exception.
NestRaise == NestEnd("raise")

NextNest == NestSetParticipant \/ NestBegin \/ NestReturn \/ NestRaise

SpecNest == InitNest /\ [][NextNest]_vars

(***************************************************************************)
(* Specification SpecGather: n structurally identical traced coroutines    *)
(* run under asyncio.gather in one event loop, logging through one         *)
(* MermaidFileHandler; the handler is flushed and closed after gather()    *)
(* has returned. The context each task sets is its own copy and is not     *)
(* read by the handler.                                                    *)
(***************************************************************************)
InitGather ==
    /\ NestUnused
    /\ CatchUnused
    /\ FaultsUnused
    /\ ThreadsUnused
    /\ FmtUnused
    /\ AsyncUnused
    /\ SanUnused
    /\ TraceUnused
    /\ CowUnused
    /\ CtxUnused
    /\ CallUnused
    /\ \E n \in 2..MaxTasks, body \in {"suspends", "straight"}, capture \in BOOLEAN :
          gather = NewGather(n, body, capture)
    /\ \E c \in SinkConfigs, exists \in BOOLEAN :
          /\ c.kind = "file"
          /\ sink = NewSink(c, exists, <<>>)
    /\ emits = 0

notGatherSink == <<fmtVars, asyncVars, ctxVars, sanVars, traceVars, cowVars, callVars, threadVars, faultVars, catchVars, nestVars>>

AllStarted == \A i \in Tasks : gather.pc[i] # "new"
AllDone == \A i \in Tasks : gather.pc[i] \in {"done", "none"}

\* The loop runs task i for the first time; tasks start in the order gather
\* made them. async_wrapper logs the call and awaits the coroutine, which
\* either suspends (await asyncio.sleep) or runs straight to its return.
TaskStart(i) ==
    /\ gather.pc[i] = "new"
    /\ \A j \in Tasks : gather.pc[j] # "running"
    /\ \A j \in 1..(i - 1) : gather.pc[j] # "new"
    /\ sink' = SinkEmit(sink, RequestEvent(GatherCall(gather.capture)))
    /\ emits' = emits + 1
    /\ gather' = [gather EXCEPT !.pc[i] = IF gather.body = "suspends"
                                          THEN "waiting" ELSE "running"]
    /\ UNCHANGED notGatherSink

\* Task i, whose body does not suspend, runs on without yielding to the
\* loop: the coroutine returns and async_wrapper logs the return.
TaskFinish(i) ==
    /\ gather.pc[i] = "running"
    /\ sink' = SinkEmit(sink, ResponseEvent(GatherCall(gather.capture), "ok"))
    /\ emits' = emits + 1
    /\ gather' = [gather EXCEPT !.pc[i] = "done"]
    /\ UNCHANGED notGatherSink

\* The loop resumes task i, whose wait is over; every ready task has had
\* its first run by then. The coroutine returns and async_wrapper logs the
\* return.
TaskResume(i) ==
    /\ gather.pc[i] = "waiting"
    /\ AllStarted
    /\ sink' = SinkEmit(sink, ResponseEvent(GatherCall(gather.capture), "ok"))
    /\ emits' = emits + 1
    /\ gather' = [gather EXCEPT !.pc[i] = "done"]
    /\ UNCHANGED notGatherSink

NextGather ==
    \/ \E i \in Tasks : TaskStart(i)
    \/ \E i \in Tasks : TaskFinish(i)
    \/ \E i \in Tasks : TaskResume(i)
    \/ (FlushSink /\ AllDone)
    \/ (CloseSink /\ AllDone)

SpecGather == InitGather /\ [][NextGather]_vars

(***************************************************************************)
(* Specification SpecLock: one thread logs events through a                *)
(* MermaidFileHandler while another thread calls the handler's flush().    *)
(***************************************************************************)
InitLock ==
    /\ NestUnused
    /\ CatchUnused
    /\ FaultsUnused
    /\ FmtUnused
    /\ AsyncUnused
    /\ SanUnused
    /\ TraceUnused
    /\ CowUnused
    /\ CtxUnused
    /\ CallUnused
    /\ GatherUnused
    /\ NewThreads
    /\ \E c \in SinkConfigs, exists \in BOOLEAN :
          /\ c.kind = "file"
          /\ sink = NewSink(c, exists, <<>>)
    /\ emits = 0

notLockSink == <<fmtVars, asyncVars, ctxVars, sanVars, traceVars, cowVars, callVars,
                 gatherVars, faultVars, catchVars, nestVars>>

\* Handler.handle: acquire() the lock, then emit(record) up to the return of
\* format().
EmitLockedFormat ==
    /\ threads.emitter.pc = "idle"
    /\ threads.lock = NoThread
    /\ emits < MaxEmits
    /\ \E e \in SinkEvents :
          /\ sink' = SinkEmitFormat(sink, e).sink
          /\ threads' = [threads EXCEPT
                 !.lock = "emitter",
                 !.emitter = [pc |-> "write", lines |-> SinkEmitFormat(sink, e).lines]]
    /\ emits' = emits + 1
    /\ UNCHANGED notLockSink

\* emit writes the text format() returned; handle release()s the lock.
EmitWriteRelease ==
    /\ threads.emitter.pc = "write"
    /\ sink' = SinkWrite(sink, threads.emitter.lines)
    /\ threads' = [threads EXCEPT !.lock = NoThread,
                                   !.emitter = [pc |-> "idle", lines |-> <<>>]]
    /\ UNCHANGED <<emits, notLockSink>>

\* MermaidHandlerMixin.flush: formatter.flush(), called as flush() is
\* entered, with no acquire().
FlushFormatter ==
    /\ threads.flusher.pc = "idle"
    /\ sink' = SinkFlushFormatter(sink).sink
    /\ threads' = [threads EXCEPT
           !.flusher = [pc |-> "write", lines |-> SinkFlushFormatter(sink).lines]]
    /\ UNCHANGED <<emits, notLockSink>>

\* MermaidHandlerMixin.flush writes the text formatter.flush() returned.
FlushWrite ==
    /\ threads.flusher.pc = "write"
    /\ sink' = SinkWrite(sink, threads.flusher.lines)
    /\ threads' = [threads EXCEPT !.flusher = [pc |-> "super", lines |-> <<>>]]
    /\ UNCHANGED <<emits, notLockSink>>

\* super().flush(): StreamHandler.flush acquires the lock, flushes the
\* stream and releases the lock.
FlushSuper ==
    /\ threads.flusher.pc = "super"
    /\ threads.lock = NoThread
    /\ threads' = [threads EXCEPT !.flusher.pc = "idle"]
    /\ UNCHANGED <<sink, emits, notLockSink>>

NextLock ==
    \/ EmitLockedFormat
    \/ EmitWriteRelease
    \/ FlushFormatter
    \/ FlushWrite
    \/ FlushSuper

SpecLock == InitLock /\ [][NextLock]_vars

(***************************************************************************)
(* Specification SpecFault: a traced function called again and again,      *)
(* logging through a sink whose emit can fail at any of its statements.    *)
(***************************************************************************)
InitFault ==
    /\ NestUnused
    /\ CatchUnused
    /\ FmtUnused
    /\ AsyncUnused
    /\ SanUnused
    /\ TraceUnused
    /\ CowUnused
    /\ CtxUnused
    /\ CallUnused
    /\ GatherUnused
    /\ ThreadsUnused
    /\ NewFaults
    /\ \E c \in SinkConfigs, exists \in BOOLEAN : sink = NewSink(c, exists, <<>>)
    /\ emits = 0

notFaultSink == <<fmtVars, asyncVars, ctxVars, sanVars, traceVars, cowVars, callVars, gatherVars, threadVars, catchVars, nestVars>>

\* The outcomes of the traced function.
FaultOutcomes == {"ok", "ValueError"}

\* wrapper up to the call of the traced function: _log_interaction.
TracedBegin ==
    /\ faults.pc # "body"
    /\ emits < MaxEmits
    /\ \E f \in Failures :
          LET e == RequestEvent(GatherCall(TRUE))
              r == LogEvent(sink, e, f)
          IN  /\ f # NoFailure => faults.failed < MaxFailures
              /\ CanFail(sink, e, f)
              /\ sink' = r.sink
              /\ faults' = [failed |-> faults.failed + (IF f = NoFailure THEN 0 ELSE 1),
                            reported |-> faults.reported + r.reported,
                            pc |-> IF r.escaped = "none" THEN "body" ELSE "done",
                            outcome |-> "none",
                            seen |-> r.escaped]
    /\ emits' = emits + 1
    /\ UNCHANGED notFaultSink

\* The traced function returns or raises; the wrapper logs it (_log_return
\* or _log_error) and returns the result or re-raises; an exception that
\* leaves the logging call is what the caller gets.
TracedEnd ==
    /\ faults.pc = "body"
    /\ \E did \in FaultOutcomes, f \in Failures :
          LET c == GatherCall(TRUE)
              e == IF did = "ok" THEN ResponseEvent(c, "ok") ELSE ErrorEvent(c, did)
              r == LogEvent(sink, e, f)
          IN  /\ f # NoFailure => faults.failed < MaxFailures
              /\ CanFail(sink, e, f)
              /\ sink' = r.sink
              /\ faults' = [failed |-> faults.failed + (IF f = NoFailure THEN 0 ELSE 1),
                            reported |-> faults.reported + r.reported,
                            pc |-> "done",
                            outcome |-> did,
                            seen |-> IF r.escaped = "none" THEN did ELSE r.escaped]
    /\ emits' = emits + 1
    /\ UNCHANGED notFaultSink

NextFault ==
    \/ TracedBegin
    \/ TracedEnd
    \/ FlushSink
    \/ (CloseSink /\ faults.pc # "body")

SpecFault == InitFault /\ [][NextFault]_vars

(***************************************************************************)
(* Specification SpecInstr: the instrumentation layer, that is traced      *)
(* functions and requests through MermaidTraceMiddleware, one after the    *)
(* other in the main execution, logging through the sink of                *)
(* configure_flow(file).                                                   *)
(***************************************************************************)
\* The X-Trace-ID header of the request.
HeaderTraceId == 1

\* dispatch up to call_next: source and trace id from the headers (a new
\* uuid4 without X-Trace-ID), the request event, then ascope() is entered.
DispatchBegin ==
    /\ call.pc # "body"
    /\ \E trace \in {HeaderTraceId, FreshId(heap)} :
          LET c == [call EXCEPT !.pc = "body", !.kind = "dispatch",
                                !.label = "Action", !.capture = TRUE,
                                !.thrown = "none", !.raised = "none",
                                !.value = "none"]
              d == [participant |-> NameValue(c.target), trace_id |-> trace]
              r == EnterOp(heap, execs[1].store, d)
          IN  /\ Len(r.heap) <= MaxObjects
              /\ sink' = SinkEmit(sink, DispatchRequestEvent(c))
              /\ emits' = emits + 1
              /\ heap' = r.heap
              /\ execs' = [execs EXCEPT
                    ![1].store = r.store,
                    ![1].scopes = Append(@, [token |-> r.token, data |-> d,
                                             installed |-> r.store,
                                             before |-> GetStore(heap, execs[1].store)])]
              /\ call' = [c EXCEPT !.events = <<DispatchRequestEvent(c)>>]
    /\ UNCHANGED notCallSink

\* call_next returns the response: the response event, the scope ends.
DispatchReturn ==
    /\ call.pc = "body" /\ call.kind = "dispatch"
    /\ sink' = SinkEmit(sink, DispatchResponseEvent(call, "m1"))
    /\ call' = [call EXCEPT !.pc = "done", !.n = @ + 1, !.value = "ok",
                            !.events = Append(@, DispatchResponseEvent(call, "m1"))]
    /\ emits' = emits + 1
    /\ CallScopeExit
    /\ UNCHANGED notCallSink

\* call_next raises: the error event if `except Exception` catches it, the
\* scope ends, the exception leaves dispatch.
DispatchRaise ==
    /\ call.pc = "body" /\ call.kind = "dispatch"
    /\ \E exc \in Raisable :
          IF Caught(exc)
          THEN /\ sink' = SinkEmit(sink, DispatchErrorEvent(call, exc))
               /\ emits' = emits + 1
               /\ call' = [call EXCEPT !.pc = "done", !.n = @ + 1,
                                       !.thrown = exc, !.raised = exc,
                                       !.events = Append(@, DispatchErrorEvent(call, exc))]
          ELSE /\ UNCHANGED <<sink, emits>>
               /\ call' = [call EXCEPT !.pc = "done", !.n = @ + 1,
                                       !.thrown = exc, !.raised = exc]
    /\ CallScopeExit
    /\ UNCHANGED notCallSink

NextInstr ==
    \/ CallBegin
    \/ (CallReturn /\ call.kind \in WrapperKinds)
    \/ (CallRaise /\ call.kind \in WrapperKinds)
    \/ DispatchBegin
    \/ DispatchReturn
    \/ DispatchRaise
    \/ FlushSink
    \/ (CloseSink /\ call.pc # "body")

SpecInstr == InitCall /\ [][NextInstr]_vars

(***************************************************************************)
(* Specification SpecCatch: one logcapy catch object guarding functions    *)
(* and with-blocks that return or raise.                                   *)
(***************************************************************************)
InitCatch ==
    /\ NestUnused
    /\ FmtUnused
    /\ SinkUnused
    /\ AsyncUnused
    /\ SanUnused
    /\ TraceUnused
    /\ CowUnused
    /\ CtxUnused
    /\ CallUnused
    /\ GatherUnused
    /\ ThreadsUnused
    /\ FaultsUnused
    /\ \E c \in CatchConfigs : catching = NewCatch(c)

\* A call of a decorated function, sync or async.
CatchCall ==
    /\ catching.calls < MaxCalls
    /\ \E use \in {"sync", "async"},
          did \in {Returns("ok")} \cup {Raises(x) : x \in CatchRaisable} :
          LET r == WrapperOutcome(catching.config, did)
          IN  catching' = [catching EXCEPT !.calls = @ + 1, !.logged = @ + r.logged,
                                           !.use = use, !.did = did,
                                           !.result = r.result]
    /\ UNCHANGED notCatch

\* A `with catch(...)` or `async with catch(...)` block.
CatchBlock ==
    /\ catching.calls < MaxCalls
    /\ \E did \in {Returns("None")} \cup {Raises(x) : x \in CatchRaisable} :
          LET r == ExitOutcome(catching.config, did)
          IN  catching' = [catching EXCEPT !.calls = @ + 1, !.logged = @ + r.logged,
                                           !.use = "with", !.did = did,
                                           !.result = r.result]
    /\ UNCHANGED notCatch

NextCatch == CatchCall \/ CatchBlock

SpecCatch == InitCatch /\ [][NextCatch]_vars

(***************************************************************************)
(* Claims about the formatter.                                             *)
(***************************************************************************)
ArrowLines(lines) == SelectSeq(lines, LAMBDA l : l.kind = "arrow")

\* The last n pieces of a message.
Tail5(msg) == IF Len(msg) < 5 THEN <<>> ELSE SubSeq(msg, Len(msg) - 4, Len(msg))

\* The line ends in the text " (xN)".
EndsInCount(line, n) == Tail5(line.msg) = <<" ", "(", "x", ToString(n), ")">>

\* The repeat count a line shows, whichever parentheses surround it; a line
\* without a count stands for one event.
ShownCount(line) ==
    LET t == Tail5(line.msg)
    IN  IF t # <<>> /\ t[1] = " " /\ t[3] = "x" /\ t[2] \in {"(", "U+FF08"}
        THEN CHOOSE n \in 2..(2 * MaxRepeat + MaxEvents) : ToString(n) = t[4]
        ELSE 1

\* C1: N >= 2 non-error events of one signature, then flush(): exactly one
\* arrow line, ending in " (xN)", and every format() before the flush
\* returned empty text.
C1_RepeatedCallCollapses ==
    (run = "same" /\ flushes = 1 /\ Len(fed) >= 2) =>
        /\ Len(ArrowLines(out)) = 1
        /\ EndsInCount(ArrowLines(out)[1], Len(fed))
        /\ \A i \in 1..Len(returned) : returned[i] = <<>>

\* C2: a call and its structural return, the pair repeated N >= 2 times,
\* then flush(): exactly two lines, the call line then the return line, each
\* ending in " (xN)".
C2_RepeatedPairCollapses ==
    (run = "pair" /\ flushes = 1 /\ Len(fed) >= 4) =>
        /\ Len(out) = 2
        /\ out[1].arrow = "->>" /\ EndsInCount(out[1], Len(fed) \div 2)
        /\ out[2].arrow = "-->>" /\ EndsInCount(out[2], Len(fed) \div 2)

\* Sum of the repeat counts of the arrow lines (no suffix counts 1).
RECURSIVE SumCounts(_)
SumCounts(lines) ==
    IF lines = <<>> THEN 0
    ELSE (IF Head(lines).kind = "arrow" THEN ShownCount(Head(lines)) ELSE 0)
         + SumCounts(Tail(lines))

\* C3: no event is lost: once everything buffered has been flushed, the
\* repeat counts of the emitted arrow lines sum to the number of events
\* consumed, and a flush leaves nothing buffered.
C3_NoEventLost ==
    formatter.event_buffer = <<>> => SumCounts(out) = Len(fed)

\* The formatter was fed, from new and with no flush() in between, two
\* events of one signature and then an event of another signature.
FedTwoThenOther ==
    /\ Len(fed) = 3 /\ flushes = 0
    /\ EventKey(fed[1]) = EventKey(fed[2])
    /\ EventKey(fed[3]) # EventKey(fed[1])
    /\ out = returned[3]

\* C13: after A, A, B (B of another signature) the format() call for B has
\* returned the A line ending in " (x2)", and only B is buffered, with no
\* active pattern.
C13_PatternBreakFlushes ==
    FedTwoThenOther =>
        /\ Len(ArrowLines(returned[3])) = 1
        /\ ArrowLines(returned[3])[1].src = fed[1].source
        /\ EndsInCount(ArrowLines(returned[3])[1], 2)
        /\ formatter.event_buffer = <<fed[3]>>
        /\ formatter.current_pattern = <<>>

\* C14: the pending-event buffer never holds more than 2 events.
C14_BufferAtMostTwo == Len(formatter.event_buffer) <= 2

\* C15: no two distinct raw names are mapped to one id, and the ids given
\* out are the used ids.
C15_SanitizeInjective ==
    /\ \A n1, n2 \in DOMAIN participant_map :
          n1 # n2 => participant_map[n1] # participant_map[n2]
    /\ used_ids = {participant_map[n] : n \in DOMAIN participant_map}

\* A raw name was given that equals an id issued before with a numeric
\* suffix to another name.
C15_Witness ==
    \E n, m \in DOMAIN participant_map :
        /\ n # m
        /\ participant_map[m] = n
        /\ participant_map[m] = Suffixed(CleanName(m), 1)
        /\ participant_map[n] = Suffixed(n, 1)

(***************************************************************************)
(* Claims about the file sink.                                             *)
(***************************************************************************)
\* The files the sink has written: the current one and the rotated ones.
SinkFiles == {sink.base} \cup {sink.backups[i] : i \in 1..Len(sink.backups)}

Headers(c) == {i \in 1..Len(c) : c[i].kind = "header"}

\* The file was created by the sink or started after a rotation: it holds
\* nothing from before the sink opened it.
SinkMade(c) == \A i \in 1..Len(c) : c[i].kind # "old"

Dispatched == {dispatched[i] : i \in 1..Len(dispatched)}

\* C4: after stop() has returned, every record accepted before the stop call
\* has been dispatched to the handlers, none is left in the queue, and no
\* handler's formatter holds a pending event.
C4_DrainOnStop ==
    (stops.calls > 0 /\ stops.returned) =>
        /\ stops.before \subseteq Dispatched
        /\ stops.before \cap Pending = {}
        /\ \A h \in 1..NumHandlers : handlers[h].formatter.event_buffer = <<>>

\* C8: at most queue_size records are ever pending in the queue.
C8_QueueBounded == Cardinality(Pending) <= queue_size /\ Len(queue) <= queue_size

C8_Witness ==
    /\ Cardinality(Pending) = queue_size
    /\ consumer.pc = "handle"
    /\ \E p \in Producers : producers[p].pc = "put"

\* C9: an emit() that ends while the queue is full returns normally, drops
\* its own record and leaves the queued records and their order unchanged.
C9_DropNewestOnFull ==
    [][\A p \in Producers :
          (producers[p].pc = "put" /\ QueueFull /\ producers'[p].pc # "put") =>
              /\ producers'[p].pc = "idle"
              /\ queue' = queue
              /\ dropped' = dropped \cup {producers[p].rec}
              /\ accepted' = accepted]_vars

C9_Witness ==
    /\ dropped # {}
    /\ QueueFull
    /\ \A p \in Producers : producers[p].pc = "idle"

\* C10: once stop() has been requested no later emit() (one called after the
\* request) adds a record to the queue, and a listener thread that has ended
\* is never started again.
C10_NoSubmissionAfterStop ==
    [][stops.calls > 0 =>
          /\ \A r \in Pending' \ Pending : r <= stops.seen
          /\ consumer.pc = "done" => consumer'.pc = "done"]_vars

\* C12: stop() always returns to its caller, also when enqueueing the
\* sentinel or a handler's flush() raised; once a stop() has joined the
\* listener every handler whose flush() does not raise holds no pending
\* event, whichever other handlers' flush() raised; and after that a stop()
\* enqueues no sentinel, joins nothing and flushes no handler.
C12_StopIsSafe ==
    /\ []((stopper = "idle" /\ stops.calls > 0) => stops.returned)
    /\ [](~listener =>
             \A h \in 1..NumHandlers :
                 h \notin flush_fails => handlers[h].formatter.event_buffer = <<>>)
    /\ [][~listener =>
             /\ handlers' = handlers
             /\ stopper' = "idle"
             /\ Len(SelectSeq(queue', LAMBDA r : r = Sentinel))
                    = Len(SelectSeq(queue, LAMBDA r : r = Sentinel))]_vars

\* A second stop() has returned after one that joined the listener, the
\* first handler's flush() raised and left an event pending there, and the
\* handlers after it were flushed and have written the lines of the records
\* dispatched.
C12_Witness ==
    /\ ~listener /\ stops.calls = 2 /\ stops.returned
    /\ 1 \in flush_fails /\ NumHandlers \notin flush_fails
    /\ handlers[1].formatter.event_buffer # <<>>
    /\ Len(handlers[NumHandlers].base) >= 2

\* The records put on the queue so far, in the order the state shows for
\* them: the ones dispatched, the one the listener holds, the ones queued.
InOrder ==
    dispatched
    \o (IF consumer.pc = "handle" THEN <<consumer.rec>> ELSE <<>>)
    \o SelectSeq(queue, LAMBDA r : r # Sentinel)

\* C11: records are dispatched in the order they were put on the queue (a
\* put adds at the end of that order and nothing else changes it), every
\* handler is given every dispatched record, and the records of one producer
\* are dispatched in the order that producer passed them to emit().
C11_FifoDispatch ==
    /\ [][\/ InOrder' = InOrder
          \/ \E p \in Producers : InOrder' = Append(InOrder, producers[p].rec)]_vars
    /\ [](\A i, j \in 1..Len(dispatched) :
             (i < j /\ owner[dispatched[i]] = owner[dispatched[j]])
                 => dispatched[i] < dispatched[j])
    /\ [](\A h \in 1..NumHandlers : handlers[h] = handlers[1])

\* Two producers raced: the record passed to emit() second was queued first,
\* and both have been dispatched, with a later record of one of them.
C11_Witness ==
    /\ Len(dispatched) = 3
    /\ dispatched[1] > dispatched[2]
    /\ owner[dispatched[1]] # owner[dispatched[2]]

(***************************************************************************)
(* Claims about LogContext.                                                *)
(***************************************************************************)
\* C6: a step (set, update, set_all, entering or leaving a scope, forking)
\* never changes what get()/get_all() show in a running execution other than
\* the one that took it (whose ContextVar binding the step left alone), its
\* ancestor included.
C6_ContextIsolation ==
    [][\A y \in Execs :
          (execs[y].alive /\ execs'[y] = execs[y]) => View(y)' = View(y)]_vars

\* Two tasks forked from one snapshot, one of which has since entered a
\* scope of its own while the other still holds the ancestor's dict.
C6_Witness ==
    \E x, y \in Execs :
        /\ x # y /\ execs[x].alive /\ execs[y].alive
        /\ execs[x].kind = "task" /\ execs[y].kind = "task"
        /\ execs[y].store = execs[1].store /\ execs[y].store # 0
        /\ execs[x].store # execs[y].store
        /\ View(x) # View(y)
        /\ execs[x].scopes # <<>>

\* C7: when a scope()/ascope() block ends, get_all() is what it was just
\* before the block.
C7_ScopeRestores ==
    [][\A x \in Execs :
          Len(execs'[x].scopes) < Len(execs[x].scopes) =>
              View(x)' = execs[x].scopes[Len(execs[x].scopes)].before]_vars

\* The one running execution is inside a block and holds the dict that block
\* installed, after it installed two more dicts: a nested block has ended, or
\* two have, and what was installed inside is gone.
C7_Witness ==
    /\ \A x \in Execs : execs[x].alive <=> x = 1
    /\ Len(execs[1].scopes) = 1
    /\ execs[1].store = execs[1].scopes[1].installed
    /\ Len(heap) >= execs[1].scopes[1].installed + 2

\* C16: a current_trace_id() call made in an execution whose ContextVar still
\* holds the dict the execution's previous call left returns the id that call
\* returned; every call leaves its id under "trace_id" in the caller's dict;
\* and an id it generates is one no dict has held before.
C16_TraceIdStable ==
    [][tracing' # tracing =>
          /\ (tracing'.exec = tracing.exec
                 /\ execs[tracing.exec].store = tracing.store)
                 => tracing'.id = tracing.id
          /\ GetStore(heap', execs'[tracing'.exec].store)["trace_id"] = tracing'.id
          /\ Len(heap') > Len(heap)
                 => \A i \in 1..Len(heap) : heap[i]["trace_id"] # tracing'.id]_vars

\* An execution called current_trace_id() twice in a row after another
\* execution had generated an id of its own: the first call generated the
\* id, the second generated none.
C16_Witness ==
    /\ tracing.again
    /\ Len(heap) = 2
    /\ tracing.store = 2
    /\ tracing.id = FreshId(<<heap[1]>>)
    /\ heap[2]["trace_id"] = tracing.id
    /\ heap[1]["trace_id"] = FreshId(<<>>)
    /\ execs[tracing.exec].store = 2

\* C17: a thread or task starts with get_all() equal to what the execution
\* that spawned it had at that moment, and what the spawning execution
\* installs afterwards does not change what the child reads.
C17_ForkStartsFromSnapshot ==
    /\ [][\A x, y \in Execs, kind \in ForkKinds :
             ForkAs(x, y, kind) => View(y)' = View(x)]_vars
    /\ [][\A x, y \in Execs :
             (/\ x # y /\ execs[x].alive /\ execs[y].alive
              /\ execs'[x].store # execs[x].store
              /\ execs'[y].store = execs[y].store) => View(y)' = View(y)]_vars

\* C17 for asyncio tasks only.
C17_TaskStartsFromSnapshot ==
    /\ [][\A x, y \in Execs : ForkAs(x, y, "task") => View(y)' = View(x)]_vars
    /\ [][\A x, y \in Execs :
             (/\ x # y /\ execs[x].alive /\ execs[y].alive
              /\ execs[y].kind = "task"
              /\ execs'[x].store # execs[x].store
              /\ execs'[y].store = execs[y].store) => View(y)' = View(y)]_vars

\* The dicts a ContextVar holds or a scope's token will put back.
Installed ==
    UNION { {execs[x].store} \cup { execs[x].scopes[j].token : j \in 1..Len(execs[x].scopes) }
            : x \in Execs } \ {0}

\* C18: no step changes a dict that LogContext created as a snapshot or that
\* is installed; what get_all() shows to an execution changes only when that
\* execution's ContextVar is given another dict, whatever the callers do to
\* the dicts get_all() returned and to the dicts they passed to set_all();
\* and update({}) leaves the heap and the ContextVar as they are.
C18_CopyOnWrite ==
    /\ [][/\ Len(heap') >= Len(heap)
          /\ \A i \in 1..Len(heap) :
                (i \notin held \/ i \in Installed) => heap'[i] = heap[i]]_vars
    /\ [][\A y \in Execs :
             execs'[y].store = execs[y].store => View(y)' = View(y)]_vars
    /\ [](\A x \in Execs :
             UpdateOp(heap, execs[x].store, EmptyDict)
                 = [heap |-> heap, store |-> execs[x].store])

\* The main execution alone: the caller holds dict 1, dict 2 is installed
\* and dict 3 is what get_all() then returned; the caller has since changed
\* dict 3, and dict 1 differs from dict 2 as well.
C18_Witness ==
    /\ \A x \in Execs : execs[x].alive <=> x = 1
    /\ Len(heap) = 3
    /\ held = {1, 3}
    /\ execs[1].store = 2
    /\ heap[1] # heap[2]
    /\ heap[3] # heap[2]

\* The lines a file holds.
Lines(s) == { s.base[i] : i \in 1..Len(s.base) }

\* "B--xA: Error: oops"
ErrorLine ==
    [kind |-> "arrow", src |-> "B", arrow |-> "--x", tgt |-> "A",
     msg |-> <<"Error: ", "oops">>]

\* What C19 says of a call whose body raised: the call event, then one error
\* event from the callee to the caller with str(e), then e reaches the
\* caller; and 'B--xA: Error: oops' is in the file after a flush.
ErrorTraced ==
    /\ Len(call.events) = 2
    /\ ~call.events[1].is_return /\ ~call.events[1].is_error
    /\ call.events[1].source = call.source /\ call.events[1].target = call.target
    /\ call.events[2].is_error /\ call.events[2].is_return
    /\ call.events[2].source = call.target /\ call.events[2].target = call.source
    /\ call.events[2].error_message = StrOf(call.thrown)
    /\ call.raised = call.thrown
    /\ (call.n = 1 /\ call.label = "Fail") => ErrorLine \in Lines(SinkFlush(sink))

\* C19: every traced call, sync or async, whose body raised e has logged the
\* call event and then one error event (is_error, is_return, callee to
\* caller, error_message = str(e)) and has passed e on to its caller; the
\* A->B 'Fail' call leaves 'B--xA: Error: oops' in the file after a flush.
C19_ErrorTracedAndReraised ==
    (call.pc = "done" /\ call.thrown # "none") => ErrorTraced

\* C19 as the code has it: so it is for the exceptions that derive from
\* Exception; an exception that derives from BaseException only
\* (KeyboardInterrupt, SystemExit, asyncio.CancelledError) reaches the
\* caller unchanged with no event after the call event.
C19_CaughtErrorTracedAndReraised ==
    (call.pc = "done" /\ call.thrown # "none") =>
        IF call.thrown \in ExceptionClasses
        THEN ErrorTraced
        ELSE /\ call.raised = call.thrown
             /\ Len(call.events) = 1
             /\ ~call.events[1].is_return /\ ~call.events[1].is_error

\* The one call made was a coroutine labelled 'Fail' that raised
\* ValueError("oops"); the handler has been flushed and the file holds the
\* error line.
C19_Witness ==
    /\ call.pc = "done" /\ call.n = 1
    /\ call.kind = "async" /\ call.label = "Fail"
    /\ call.thrown = "ValueError" /\ call.raised = "ValueError"
    /\ sink.formatter.event_buffer = <<>>
    /\ ErrorLine \in Lines(sink)

\* "A->>B: Action"
ActionLine ==
    [kind |-> "arrow", src |-> "A", arrow |-> "->>", tgt |-> "B",
     msg |-> <<"Action">>]

\* "B-->>A: Return: 'ok'"
ReturnLine ==
    [kind |-> "arrow", src |-> "B", arrow |-> "-->>", tgt |-> "A",
     msg |-> <<"Return: ", "'ok'">>]

\* C20: after one traced call from A to B labelled 'Action', made under the
\* default configuration (capture_args on) and returning 'ok', a flush or a close of the MermaidFileHandler leaves the
\* file with the header, then 'A->>B: Action', then 'B-->>A: Return: '
\* followed by the repr of the result.
C20_EndToEnd ==
    (/\ call.pc = "done" /\ call.n = 1
     /\ call.label = "Action" /\ call.value = "ok"
     /\ call.capture) =>
        /\ SinkFlush(sink).exists
        /\ SinkFlush(sink).base = <<Header, ActionLine, ReturnLine>>
        /\ SinkClose(sink).base = <<Header, ActionLine, ReturnLine>>

\* The one call made was a function labelled 'Action' that returned 'ok';
\* the handler has been closed and the file holds the three lines.
C20_Witness ==
    /\ call.pc = "done" /\ call.n = 1
    /\ call.kind = "sync" /\ call.label = "Action" /\ call.value = "ok"
    /\ call.capture
    /\ ~sink.stream
    /\ sink.base = <<Header, ActionLine, ReturnLine>>

\* The lines C21 expects of a file: two arrow lines, the call line and then
\* the return line.
TwoCollapsedLines(s) ==
    /\ Len(ArrowLines(s.base)) = 2
    /\ ArrowLines(s.base)[1].arrow = "->>"
    /\ ArrowLines(s.base)[2].arrow = "-->>"

\* C21: after n structurally identical traced coroutines have run under
\* gather(), a flush or close leaves one call line and one return line in
\* the file, each ending in " (xn)".
C21_GatherCollapses ==
    AllDone =>
        \A s \in {SinkFlush(sink), SinkClose(sink)} :
            /\ TwoCollapsedLines(s)
            /\ EndsInCount(ArrowLines(s.base)[1], gather.n)
            /\ EndsInCount(ArrowLines(s.base)[2], gather.n)

\* C21 with the count read whichever parentheses surround it.
C21_GatherCollapsesAnyParens ==
    AllDone =>
        \A s \in {SinkFlush(sink), SinkClose(sink)} :
            /\ TwoCollapsedLines(s)
            /\ ShownCount(ArrowLines(s.base)[1]) = gather.n
            /\ ShownCount(ArrowLines(s.base)[2]) = gather.n

\* C22: a thread that has called format() or formatter.flush() and has yet
\* to write the text holds the sink's lock, every change of the formatter
\* or of the file is made by the holder of the lock, and the flushing
\* thread is never between its two accesses while the logging thread is
\* between its own.
C22_SinkAccessUnderLock ==
    /\ [](threads.emitter.pc = "write" => threads.lock = "emitter")
    /\ [](threads.flusher.pc = "write" => threads.lock = "flusher")
    /\ [](~(threads.emitter.pc = "write" /\ threads.flusher.pc = "write"))
    /\ [][sink' # sink => (threads.lock # NoThread \/ threads'.lock # NoThread)]_vars

\* C23: a step that rotates the file leaves, as the newest backup, the file
\* as it was plus the lines of everything the formatter had buffered, and a
\* step that closes the file leaves it as it was plus those lines, with
\* nothing left in the formatter.
C23_FlushBeforeRotateOrClose ==
    [][/\ Len(sink'.backups) > Len(sink.backups)
          => sink'.backups[1] = sink.base \o Flush(sink.formatter).lines
       /\ (sink.stream /\ ~sink'.stream)
          => /\ sink'.base = sink.base \o Flush(sink.formatter).lines
             /\ sink'.formatter = NewFormatter]_vars

\* The closing half of C23: closing the file first writes what the
\* formatter had buffered.
C23_FlushBeforeClose ==
    [][(sink.stream /\ ~sink'.stream)
          => /\ sink'.base = sink.base \o Flush(sink.formatter).lines
             /\ sink'.formatter = NewFormatter]_vars

\* C24: when the sink closes a file that did not start with earlier
\* content, the file is not empty and begins with the header, whether or
\* not an event was emitted.
C24_HeaderWithoutEvents ==
    [][(sink.stream /\ ~sink'.stream)
          => /\ sink'.base # <<>>
             /\ Head(sink'.base).kind # "old" => Head(sink'.base) = Header]_vars

\* C25: while a sink in append mode works on a file that began with earlier
\* content, every step that does not rotate keeps what the file held as the
\* beginning of the file and leaves it without a header of the sink's own:
\* the earlier content stays, its header is the only one, and what the sink
\* writes follows it.
C25_AppendKeepsOldContent ==
    [][(/\ sink.mode = "a"
        /\ sink.base # <<>> /\ Head(sink.base).kind = "old"
        /\ sink'.backups = sink.backups)
          => /\ Len(sink'.base) >= Len(sink.base)
             /\ SubSeq(sink'.base, 1, Len(sink.base)) = sink.base
             /\ \A i \in 1..Len(sink'.base) : sink'.base[i].kind # "header"]_vars

C25_Witness ==
    /\ sink.mode = "a" /\ ~sink.stream /\ emits >= 2
    /\ Len(sink.base) >= 3
    /\ sink.base[1].kind = "old"
    /\ \A i \in 2..Len(sink.base) : sink.base[i].kind = "arrow"

\* C26: every failure inside emit is reported through handleError, and a
\* traced call that has ended ran its function and gave its caller what the
\* function returned or raised, whatever failed in the sink meanwhile.
C26_EmitFailuresContained ==
    /\ faults.reported = faults.failed
    /\ faults.pc = "body" => faults.seen = "none"
    /\ faults.pc = "done" => faults.outcome # "none" /\ faults.seen = faults.outcome

C26_Witness ==
    /\ faults.failed >= 2 /\ faults.reported >= 2
    /\ faults.pc = "done" /\ faults.seen = "ValueError"
    /\ ~sink.stream

\* C27: in every state of the sink, a flush() that follows a flush() changes
\* neither the file nor the formatter, and a flush() with nothing buffered
\* changes nothing at all.
C27_FlushIdempotent ==
    /\ SinkFlush(SinkFlush(sink)) = SinkFlush(sink)
    /\ sink.formatter.event_buffer = <<>> => SinkFlush(sink) = sink
    /\ Flush(Flush(sink.formatter).formatter).lines = <<>>

C27_Witness ==
    /\ sink.stream /\ emits >= 2
    /\ sink.formatter = NewFormatter
    /\ Len(sink.base) >= 3 /\ sink.base[Len(sink.base)].kind = "arrow"
    /\ SinkFlush(sink) = sink

\* C28: a format() call on an idle formatter (nothing buffered, no pattern)
\* returns the line of the event it was given.
C28_IdleFormatReturnsLine ==
    [][(formatter = NewFormatter /\ Len(fed') = Len(fed) + 1)
          => returned'[Len(returned')] = <<FormatEvent(fed'[Len(fed')], 1)>>]_vars

\* The events the formatter holds.
Buffered == {sink.formatter.event_buffer[i] : i \in 1..Len(sink.formatter.event_buffer)}

\* C29: every event the decorator or the middleware has logged, and so
\* every event the formatter holds, that is marked as an error is marked as
\* a return.
C29_ErrorIsReturn ==
    /\ \A i \in 1..Len(call.events) : call.events[i].is_error => call.events[i].is_return
    /\ \A e \in Buffered : e.is_error => e.is_return

C29_Witness ==
    /\ call.kind = "dispatch" /\ call.pc = "done"
    /\ Len(call.events) = 2 /\ call.events[2].is_error
    /\ \E e \in Buffered : e.is_error /\ e.stack_trace

\* C30: when the guarded code raised an exception of a class given as
\* `exclude`, that exception is what reaches the caller, whatever reraise
\* is.
C30_ExcludedPropagates ==
    (/\ catching.did.kind = "raise"
     /\ catching.config.exclude # NoClass
     /\ IsInstance(catching.did.value, catching.config.exclude))
        => catching.result = catching.did

\* The part of `exclude` that the code has: an excluded exception is the
\* only caught one that is not logged, so with every raised exception
\* excluded nothing is logged.
C30_ExcludedNotLogged ==
    catching.config.exclude = "Exception" => catching.logged = 0

(***************************************************************************)
(* Claims about collapsing and the order of output.                        *)
(***************************************************************************)
\* The line j of the output is the error arrow of the event e.
ErrorArrowOf(e, j) ==
    /\ out[j].kind = "arrow" /\ out[j].arrow = "--x"
    /\ out[j].src = e.source /\ out[j].tgt = e.target
    /\ Len(out[j].msg) >= 2
    /\ out[j].msg[1] = "Error: " /\ out[j].msg[2] = e.error_message

\* C31: an error event is never hidden by collapsing: once everything the
\* formatter consumed has been flushed, every consumed event with is_error
\* has an error arrow line ('--x', 'Error: ...') in the output.
C31_ErrorNeverHidden ==
    formatter.event_buffer = <<>> =>
        \A i \in 1..Len(fed) :
            fed[i].is_error => \E j \in 1..Len(out) : ErrorArrowOf(fed[i], j)

\* C32: on a size-rotating sink (maxBytes > 0) the handling of one record
\* advances the formatter by one event: the formatter after emit is the
\* formatter before it after one format() call of the record.
C32_EmitFeedsFormatterOnce ==
    [][(/\ emits' = emits + 1
        /\ sink.kind = "rotating" /\ sink.maxBytes > 0)
          => \E e \in SinkEvents :
                sink'.formatter = Format(sink.formatter, e).formatter]_vars

\* C33: a repeating cycle of three or more distinct signatures, and an
\* alternation of two events that are not a call and its return, come out
\* one line per event, in order, with no repeat suffix: what was output,
\* followed by the lines of what is still buffered, is every consumed event
\* formatted on its own.
C33_CyclesNotCollapsed ==
    out \o FormatEach(formatter.event_buffer) = FormatEach(fed)

\* C33 for the cycles in which no return or error follows a return or error
\* of the opposite direction.
C33_CyclesWithoutReturnPairsNotCollapsed ==
    (\A i \in 1..Len(fed) :
        LET j == IF i = Len(fed) THEN 1 ELSE i + 1
        IN  ~(/\ fed[i].is_return /\ fed[j].is_return
              /\ fed[i].source = fed[j].target /\ fed[i].target = fed[j].source))
      => C33_CyclesNotCollapsed

\* C34: a length-2 pattern is a call and its return or error: its first
\* signature is that of a call and its second is the first with source and
\* target swapped and is_return set; two returns never form one.
C34_PairIsCallThenReturn ==
    Len(formatter.current_pattern) = 2 =>
        /\ ~formatter.current_pattern[1][4]
        /\ ~formatter.event_buffer[1].is_return
        /\ formatter.current_pattern[2] = Counterpart(formatter.current_pattern[1])

\* The part of C34 that the code has: the second signature of a length-2
\* pattern is a return with the source and target of the first swapped.
C34_PairIsSwappedReturn ==
    Len(formatter.current_pattern) = 2 =>
        formatter.current_pattern[2] = Counterpart(formatter.current_pattern[1])

\* The text of an event formatted on its own.
OwnText(e) == FormatEvent(e, 1)[1].msg

\* C35: N >= 2 events of one signature, whatever their texts, then flush():
\* the one line that comes out carries the text of the first event followed
\* by " (xN)", and so none of the later events' texts.
C35_CollapsedShowsFirst ==
    (run = "same" /\ flushes = 1 /\ Len(fed) >= 2) =>
        /\ Len(out) = 1
        /\ out[1].msg = OwnText(fed[1]) \o <<" ", "(", "x", ToString(Len(fed)), ")">>

\* C35 with the count read whichever parentheses surround it.
C35_CollapsedShowsFirstAnyParens ==
    (run = "same" /\ flushes = 1 /\ Len(fed) >= 2) =>
        /\ Len(out) = 1
        /\ Len(out[1].msg) = Len(OwnText(fed[1])) + 5
        /\ SubSeq(out[1].msg, 1, Len(OwnText(fed[1]))) = OwnText(fed[1])
        /\ ShownCount(out[1]) = Len(fed)

(***************************************************************************)
(* Claims about the events of a traced call.                               *)
(***************************************************************************)
\* The event b is a completion of the call event a: a return or an error
\* with the same action and with source and target swapped.
CompletionOf(a, b) ==
    /\ ~a.is_return /\ ~a.is_error /\ b.is_return
    /\ b.action = a.action /\ b.source = a.target /\ b.target = a.source

\* The call logged its call event and then one completion event.
CallCompleted ==
    /\ Len(call.events) = 2
    /\ CompletionOf(call.events[1], call.events[2])

\* The call logged its call event and nothing else.
CallOpen ==
    /\ Len(call.events) = 1
    /\ ~call.events[1].is_return /\ ~call.events[1].is_error

\* C36: while the wrapped function runs the call has logged its call event
\* and no completion; once the function has ended, by returning or by
\* raising, the call has logged exactly one completion event after it.
C36_CompletionPerCall ==
    /\ call.pc = "body" => CallOpen
    /\ call.pc = "done" => CallCompleted

\* C36 as the code has it: the completion event is logged when the function
\* returns or raises an exception that derives from Exception; after an
\* exception that derives from BaseException only the call event stays
\* without a completion.
C36_CaughtCompletionPerCall ==
    /\ call.pc = "body" => CallOpen
    /\ call.pc = "done" =>
          IF call.thrown = "none" \/ call.thrown \in ExceptionClasses
          THEN CallCompleted
          ELSE CallOpen

\* The second call of a traced function has ended by raising ValueError,
\* after its call event and its error event.
C36_Witness ==
    /\ call.pc = "done" /\ call.n = 2 /\ call.kind = "sync"
    /\ call.thrown = "ValueError"
    /\ Len(call.events) = 2 /\ call.events[2].is_error

(***************************************************************************)
(* Claims about the call chain.                                            *)
(***************************************************************************)
\* C37: while a traced function with target T runs, current_participant()
\* is T, and a traced call made by it that names no source has logged T as
\* its source; and when a traced function has ended, by return or by
\* exception, current_participant() is what it was before the call.
C37_CallChain ==
    /\ nest.frames # <<>> =>
          CurrentParticipantOp(heap, execs[1].store)
              = nest.frames[Len(nest.frames)].target
    /\ \A i \in 2..Len(nest.frames) :
          ~nest.frames[i].explicit =>
              nest.frames[i].source = nest.frames[i - 1].target
    /\ nest.ended.how # "none" => nest.ended.after = nest.ended.before

\* A traced function called itself (target B inside target B, no source
\* given), the inner call raised and the participant is B again.
C37_Witness ==
    /\ Len(nest.frames) = 1 /\ nest.frames[1].target = "B"
    /\ nest.ended = [how |-> "raise", before |-> "B", after |-> "B"]
    /\ CurrentParticipantOp(heap, execs[1].store) = "B"

(***************************************************************************)
(* Claims about the formatter's state.                                     *)
(***************************************************************************)
\* C39: the active pattern has length 0, 1 or 2; with no pattern the buffer
\* holds at most one event and the count is 0; with a length-1 pattern the
\* count is the buffer length, at least 2; with a length-2 pattern the count
\* is the number of completed cycles, the buffer length divided by 2 and
\* rounded down, at least 1.
C39_FormatterStateShape ==
    LET n == Len(formatter.event_buffer)
        p == Len(formatter.current_pattern)
    IN  /\ p \in {0, 1, 2}
        /\ p = 0 => n <= 1 /\ formatter.pattern_count = 0
        /\ p = 1 => formatter.pattern_count = n /\ n >= 2
        /\ p = 2 => formatter.pattern_count = n \div 2 /\ n >= 2

\* The participants and the direction of an event, and of an arrow line.
Direction(e) == <<e.source, e.target, e.is_return>>
LineDirection(l) == <<l.src, l.tgt, l.arrow # "->>">>

\* The events consumed and not yet represented in the output are the ones
\* consumed last, in the order of their consumption.
BufferIsLatest(f, events) ==
    /\ Len(f.event_buffer) <= Len(events)
    /\ f.event_buffer =
          SubSeq(events, Len(events) - Len(f.event_buffer) + 1, Len(events))

\* C38: the output only grows at its end, and the lines a format() or
\* flush() call adds stand for events that were buffered when it was called,
\* the events consumed last before it and after every event already
\* represented, in the order of their consumption.
C38_OrderFollowsConsumption ==
    [][/\ Len(out') >= Len(out)
       /\ SubSeq(out', 1, Len(out)) = out
       /\ LET new == ArrowLines(SubSeq(out', Len(out) + 1, Len(out')))
          IN  /\ Len(new) <= Len(formatter.event_buffer)
              /\ \A i \in 1..Len(new) :
                    LineDirection(new[i]) = Direction(formatter.event_buffer[i])
       /\ BufferIsLatest(formatter, fed)
       /\ BufferIsLatest(formatter', fed')]_vars

\* A call and an error of the opposite direction were consumed, and the
\* third event, a call, made the formatter return both lines in that order.
C38_Witness ==
    /\ Len(fed) = 3 /\ ~fed[1].is_return /\ fed[2].is_error /\ ~fed[3].is_return
    /\ returned[3] # <<>> /\ out = returned[3]
    /\ Len(ArrowLines(out)) = 2
    /\ out[1].arrow = "->>" /\ ArrowLines(out)[2].arrow = "--x"
    /\ formatter.event_buffer = <<fed[3]>>

\* A call, its return and the call again are buffered: a length-2 pattern
\* with one completed cycle and three buffered events.
C39_Witness ==
    /\ Len(formatter.current_pattern) = 2
    /\ Len(formatter.event_buffer) = 3
    /\ formatter.pattern_count = 1

====
